---- MODULE Spec2Model ----
(***************************************************************************)
(* Model of the consensus epoch manager (consensus/src/epoch_manager.rs):  *)
(* the supervisor that installs the per-epoch actors, tears them down on   *)
(* an epoch change and routes verified network events to them.             *)
(*                                                                         *)
(* A peer is identified by the first byte of its account address, which is *)
(* the only part of the address the routing code reads.                    *)
(***************************************************************************)
EXTENDS Integers, Sequences, FiniteSets, TLC

\* ------------------------------------------------------------------ bounds
NumPeers == 4          \* validators are among the peers 0 .. NumPeers-1
NumSenders == 2        \* peers 0 .. NumSenders-1 send messages to this node
MaxEpoch == 2          \* epochs 1 .. MaxEpoch
ChannelSize == 2       \* config.channel_size of the FIFO channels

\* ------------------------------------------------------- program constants
Author == 0                       \* EpochManager.author (the local node)
NumNodesPerWorkerHandles == 2     \* QuorumStoreConfig.num_nodes_per_worker_handles
InitialFragmentWorkers == 2       \* num_network_workers_for_fragment in new()
RoundManagerQueueSize == 1        \* aptos_channel::new(LIFO, 1, ..) of the round manager
BlockRetrievalQueueSize == 1      \* aptos_channel::new(LIFO, 1, ..) of block retrieval

Peers == 0 .. (NumPeers - 1)
Senders == 0 .. (NumSenders - 1)
Epochs == 1 .. MaxEpoch

\* Validator sets a reconfiguration payload may carry: with and without the
\* local author, of one and of several validators.
ValidatorSets == { Peers, Peers \ {Author}, {Author} }

None == 0              \* Option::None of an actor handle; Some(_) is the epoch

\* ------------------------------------------------------------ message kinds
RoundManagerKinds == {"ProposalMsg", "SyncInfo", "VoteMsg"}
BufferManagerKinds == {"CommitVoteMsg", "CommitDecisionMsg"}
EpochKinds ==
    RoundManagerKinds \cup BufferManagerKinds \cup
    {"SignedDigestMsg", "FragmentMsg", "BatchMsg", "ProofOfStoreBroadcastMsg"}

\* An inbound ConsensusMsg.  epoch: the epoch an event carries, or
\* proof.epoch() of an EpochChangeProof (0: proof.epoch() fails, the proof is
\* empty).  ok: the outcome of signature / proof verification against the
\* verifier of the current epoch.  lo, hi: start_epoch and end_epoch of an
\* EpochRetrievalRequest; hi of a proof: next_block_epoch of its last
\* ledger info.
Msg(kind, peer, epoch, ok, lo, hi) ==
    [kind |-> kind, peer |-> peer, epoch |-> epoch, ok |-> ok, lo |-> lo, hi |-> hi]

NoMsg == Msg("none", 0, 0, FALSE, 0, 0)

EventMsgs ==
    { Msg(k, p, e, ok, 0, 0) :
        k \in EpochKinds, p \in Senders, e \in 1 .. (MaxEpoch + 1), ok \in BOOLEAN }

ProofMsgs ==
    { m \in { Msg("EpochChangeProof", p, e, TRUE, 0, h) :
                p \in Senders, e \in Epochs, h \in 2 .. (MaxEpoch + 1) } : m.hi > m.epoch }
    \cup
    { Msg("EpochChangeProof", p, e, FALSE, 0, 0) : p \in Senders, e \in 0 .. MaxEpoch }

RetrievalMsgs ==
    { Msg("EpochRetrievalRequest", p, 0, TRUE, lo, hi) :
        p \in Senders, lo \in 1 .. MaxEpoch, hi \in 1 .. (MaxEpoch + 1) }

OtherMsgs == { Msg("BlockRetrievalResponse", p, 0, TRUE, 0, 0) : p \in Senders }

\* ---------------------------------------------------------------- channels
\* aptos_channel: one queue per key, each of at most `cap` messages; a
\* channel is the function from its keys to their queues, oldest entry first.
PeerKeys == Senders

\* The round manager's channel is keyed by (peer, kind of event).
RoundManagerKeys ==
    (Senders \X EpochKinds) \cup {<<Author, "LocalTimeout">>}

EmptyChan(keys) == [k \in keys |-> <<>>]

\* A pending entry.  bit tells an entry of a capacity-1 queue from the one
\* it replaces.
Entry(m, bit) == [kind |-> m.kind, epoch |-> m.epoch, ok |-> m.ok, bit |-> bit]

NextBit(ch, key) == IF ch[key] = <<>> THEN 0 ELSE 1 - ch[key][Len(ch[key])].bit

Busy(ch) == \E k \in DOMAIN ch : ch[k] # <<>>

ChanLen(ch) ==
    Cardinality(UNION { { <<k, i>> : i \in DOMAIN ch[k] } : k \in DOMAIN ch })

\* PerKeyQueue::push: a full FIFO queue drops the new message, a full LIFO
\* queue drops its oldest message.
ChanPush(ch, key, e, style, cap) ==
    IF Len(ch[key]) < cap THEN [ch EXCEPT ![key] = Append(@, e)]
    ELSE IF style = "FIFO" THEN ch
    ELSE [ch EXCEPT ![key] = Append(Tail(@), e)]

\* PerKeyQueue::pop of the queue of `key`: FIFO pops the front, LIFO the
\* back.  PopPos: the position (1: oldest) of the entry popped.
PopPos(ch, key, style) == IF style = "FIFO" THEN 1 ELSE Len(ch[key])

ChanPop(ch, key, style) ==
    [ch EXCEPT ![key] = IF style = "FIFO" THEN Tail(@)
                        ELSE SubSeq(@, 1, Len(@) - 1)]

\* ------------------------------------------------------------------- state
VARIABLES
    pc,                              \* where the epoch manager task is
    use_quorum_store,                \* config.use_quorum_store
    epoch_state,                     \* Option<EpochState>: [epoch, verifier]
    round_manager_tx,                \* handles: None or the epoch that made them
    round_manager_close_tx,
    buffer_manager_msg_tx,
    buffer_manager_reset_tx,
    block_retrieval_tx,
    wrapper_quorum_store_tx,
    num_network_workers_for_fragment,
    quorum_store_msg_tx_vec,         \* sequence of senders (each: its epoch)
    pendingLI,                       \* epoch of the ledger info being synced to
    rmMode,                          \* what round_manager_tx feeds
    liveRM, liveWrapper, liveBM,     \* epochs whose actor task is running
    liveBRT, liveListeners,
    closeReq,                        \* close / stop / reset signals in flight
    acked,                           \* acknowledgments in flight
    shutLog,                         \* steps of the shutdown in progress
    rmChan, bmChan, wrapperChan,     \* pending entries of the actors' channels
    brtChan, qsChan,
    last                             \* input and outcome of the last handler

handles == <<round_manager_tx, round_manager_close_tx, buffer_manager_msg_tx,
             buffer_manager_reset_tx, block_retrieval_tx, wrapper_quorum_store_tx,
             num_network_workers_for_fragment, quorum_store_msg_tx_vec>>

actors == <<liveRM, liveWrapper, liveBM, liveBRT, liveListeners>>

signals == <<closeReq, acked>>

chans == <<rmChan, bmChan, wrapperChan, brtChan, qsChan>>

vars == <<pc, use_quorum_store, epoch_state, handles, pendingLI, rmMode, actors,
          signals, shutLog, chans, last>>

\* The QuorumStore worker of one epoch (quorum_store.rs).
VARIABLES
    qsPc,                            \* "off", "running", "panicked", "stopped"
    fragment_id,                     \* QuorumStore::fragment_id
    batch_aggregator,                \* QuorumStore::batch_aggregator
    commands,                        \* commands received for the batch in hand
    broadcast,                       \* fragments broadcast for that batch
    batch_store_tx,                  \* the last command sent to the batch store
    proof_builder_tx                 \* the last command sent to the proof builder

worker == <<qsPc, fragment_id, batch_aggregator, commands, broadcast,
            batch_store_tx, proof_builder_tx>>

\* The proof builder of one epoch (spawned by QuorumStore::new).
VARIABLES
    pbPc,                            \* "off", "running", "stopped"
    proofs,                          \* batch id -> accumulator of its digest
    timers,                          \* batch ids whose watchdog is armed
    returned,                        \* batch id -> outcomes on its return channel
    pbLast                           \* the signature check of the last signed digest

builder == <<pbPc, proofs, timers, returned, pbLast>>

\* The ExecutionProxy and its callers (state_computer.rs).
VARIABLES
    callers,                         \* caller -> the call it has in progress
    write_mutex,                     \* ExecutionProxy::write_mutex
    nextCommit,                      \* number of the next commit call
    syncs,                           \* sync_to calls made so far
    executorLog,                     \* commits done by the executor, in order
    stateSyncQ,                      \* async_state_sync_notifier: pending
    stateSyncLog,                    \* notifications and callbacks done
    commitQ,                         \* async_commit_notifier: pending
    commitLog                        \* notify_commit calls on the data manager

proxy == <<callers, write_mutex, nextCommit, syncs, executorLog, stateSyncQ,
           stateSyncLog, commitQ, commitLog>>

\* One commit call of the ExecutionProxy and what it hands to the data manager.
VARIABLES
    commit_blocks,                   \* blocks: &[Arc<ExecutedBlock>] of the call
    commit_result,                   \* "none", "ok" or "err": what commit returned
    commit_rx,                       \* CommitType messages the call has sent
    data_manager                     \* notify_commit calls the data manager got

committing == <<commit_blocks, commit_result, commit_rx, data_manager>>

\* One create_proposer_election call and the leaders asked of what it built.
VARIABLES
    election_call,                   \* the inputs of the call, once made
    ledger_info_requests,            \* get_epoch_ending_ledger_infos calls made
    proposer_election,               \* what the call built
    leaders                          \* round -> leader get_valid_proposer gave

electing == <<election_call, ledger_info_requests, proposer_election, leaders>>

\* One handle_metrics_ingest call of the telemetry service.
VARIABLES
    ingest_call,                     \* the backend clients and the body of the call
    ingest_posts,                    \* client -> the body posted and the answer
    ingest_reply                     \* "none", "Created" or "IngestionError"

ingesting == <<ingest_call, ingest_posts, ingest_reply>>

\* The round timeouts the round states send to the epoch manager.
VARIABLES
    timeout_rx,                      \* round_timeout_sender_rx: rounds not yet taken
    forwarded                        \* the last LocalTimeout given to a round manager

timing == <<timeout_rx, forwarded>>

\* The state of the functions that are looked at on their own.
functions == <<committing, electing, ingesting>>

\* The quorum store worker, send by send: what it has handed to its
\* sub-actors and to the network, in the order of the sends.
VARIABLES
    wPc,                             \* where the worker is in start
    wBatch,                          \* the batch id of the EndBatch being handled
    wSent,                           \* how many sends of that EndBatch are done
    appended,                        \* batch ids with a non-terminal fragment broadcast
    pb_channel,                      \* what was enqueued on proof_builder_tx, in order
    broadcasted,                     \* batch ids whose terminal fragment was broadcast
    persisted,                       \* batch ids whose Persist went to the batch store
    wAsked,                           \* sub-actors that were sent Shutdown, in order
    wAcked                            \* sub-actors that acknowledged, in order

stepping == <<wPc, wBatch, wSent, appended, pb_channel, broadcasted, persisted,
              wAsked, wAcked>>

\* One ExecutionProxy, call by call: what its calls and its two notifier
\* tasks did, in order.
VARIABLES
    scPc,                            \* where the call in hand is
    scDone,                          \* how many steps of a sync_to are done
    scCalls,                         \* the calls made, each with what it returned
    scTrace,                         \* per call: what it and the tasks did for it, in order
    sync_rx,                         \* rx of async_state_sync_notifier
    notify_rx                        \* commit_rx of async_commit_notifier

calling == <<scPc, scDone, scCalls, scTrace, sync_rx, notify_rx>>

\* The state that is looked at on its own.
more == <<functions, timing, stepping, calling>>

\* What a call of one of these functions leaves alone.
beside_committing == <<electing, ingesting, timing, stepping, calling>>
beside_electing == <<committing, ingesting, timing, stepping, calling>>
beside_ingesting == <<committing, electing, timing, stepping, calling>>
beside_timing == <<functions, stepping, calling>>
beside_stepping == <<functions, timing, calling>>
beside_calling == <<functions, timing, stepping>>

\* The state beside the epoch manager's.
subsystems == <<worker, builder, proxy, more>>

NoEpochState == [epoch |-> 0, verifier |-> {}]

\* EpochManager::epoch
epoch == epoch_state.epoch

\* msg: the input; res: what the handler returned; sent: the messages handed
\* to the network sender; target, idx: the channel pushed to (or taken from);
\* full: the key's queue was full; dbRead: "no" storage read was made, or
\* the read was "ok" or "failed".
Outcome(m, res, sent, target, idx, full, dbRead) ==
    [msg |-> m, res |-> res, sent |-> sent, target |-> target, idx |-> idx,
     full |-> full, dbRead |-> dbRead]

\* An actor took entry e, at position pos (1: the oldest) of the queue of
\* peer `key` of its channel.
Taken(target, idx, key, e, pos) ==
    [msg |-> Msg(e.kind, key, e.epoch, e.ok, 0, pos),
     res |-> "taken", sent |-> {}, target |-> target, idx |-> idx,
     full |-> FALSE, dbRead |-> "no"]

NoLast == Outcome(NoMsg, "none", {}, "none", 0, FALSE, "no")

\* EpochManager::new
EpochManagerNew ==
    /\ pc = "init"
    /\ use_quorum_store \in BOOLEAN
    /\ epoch_state = NoEpochState
    /\ round_manager_tx = None
    /\ round_manager_close_tx = None
    /\ buffer_manager_msg_tx = None
    /\ buffer_manager_reset_tx = None
    /\ block_retrieval_tx = None
    /\ wrapper_quorum_store_tx = None
    /\ num_network_workers_for_fragment = InitialFragmentWorkers
    /\ quorum_store_msg_tx_vec = <<>>
    /\ pendingLI = 0
    /\ rmMode = "none"
    /\ liveRM = {} /\ liveWrapper = {} /\ liveBM = {}
    /\ liveBRT = {} /\ liveListeners = {}
    /\ closeReq = {} /\ acked = {}
    /\ shutLog = <<>>
    /\ rmChan = EmptyChan(RoundManagerKeys)
    /\ bmChan = EmptyChan(PeerKeys)
    /\ wrapperChan = EmptyChan(PeerKeys)
    /\ brtChan = EmptyChan(PeerKeys)
    /\ qsChan = <<>>
    /\ last = NoLast

\* BatchAggregator::new: no batch in hand.
NoBatch == [batch_id |-> None, next_fragment_id |-> 0, payload |-> <<>>]

NoCommand == [kind |-> "none"]

\* QuorumStore::new followed by QuorumStore::start.
QuorumStoreNew ==
    /\ qsPc = "running"
    /\ fragment_id = 0
    /\ batch_aggregator = NoBatch
    /\ commands = <<>>
    /\ broadcast = <<>>
    /\ batch_store_tx = NoCommand
    /\ proof_builder_tx = NoCommand

\* No quorum store worker is running.
QuorumStoreOff ==
    /\ qsPc = "off"
    /\ fragment_id = 0
    /\ batch_aggregator = NoBatch
    /\ commands = <<>>
    /\ broadcast = <<>>
    /\ batch_store_tx = NoCommand
    /\ proof_builder_tx = NoCommand

\* Batch ids the wrapper may put in a command.
NumBatchIds == 2

BatchIds == 1..NumBatchIds

\* No InitProof was received for the batch.
NoProof == [state |-> "none", signers |-> {}, power |-> 0]

\* No signed digest was received yet.
NoSignedDigest == "none"

\* ProofBuilder::new followed by ProofBuilder::start.
ProofBuilderNew ==
    /\ pbPc = "running"
    /\ proofs = [b \in BatchIds |-> NoProof]
    /\ timers = {}
    /\ returned = [b \in BatchIds |-> <<>>]
    /\ pbLast = NoSignedDigest

\* No proof builder is running.
ProofBuilderOff ==
    /\ pbPc = "off"
    /\ proofs = [b \in BatchIds |-> NoProof]
    /\ timers = {}
    /\ returned = [b \in BatchIds |-> <<>>]
    /\ pbLast = NoSignedDigest

\* Tasks that call the ExecutionProxy concurrently.
NumCallers == 2

Callers == 1..NumCallers

\* A caller with no call in progress.
Idle == [op |-> "none", pc |-> "idle", id |-> 0, empty |-> FALSE]

\* ExecutionProxy::new
ExecutionProxyNew ==
    /\ callers = [c \in Callers |-> Idle]
    /\ write_mutex = [locked |-> FALSE, waiters |-> <<>>]
    /\ nextCommit = 1
    /\ syncs = 0
    /\ executorLog = <<>>
    /\ stateSyncQ = <<>>
    /\ stateSyncLog = <<>>
    /\ commitQ = <<>>
    /\ commitLog = <<>>

\* No commit was called yet.
NoCommit ==
    /\ commit_blocks = <<>>
    /\ commit_result = "none"
    /\ commit_rx = <<>>
    /\ data_manager = <<>>

\* No election of a proposer has been built.
NoElectionCall ==
    [type |-> "none", contiguous_rounds |-> 0, max_count |-> 0, proposers |-> <<>>,
     epoch |-> 0, fetchOk |-> FALSE, fetchLen |-> 0, extractOk |-> FALSE]

NoProposerElection ==
    [kind |-> "none", proposers |-> <<>>, contiguous_rounds |-> 0,
     epoch_to_proposers |-> [k \in {} |-> <<>>]]

NoElection ==
    /\ election_call = NoElectionCall
    /\ ledger_info_requests = <<>>
    /\ proposer_election = NoProposerElection
    /\ leaders = [r \in {} |-> 0]

\* handle_metrics_ingest has not been called.
NoIngestCall == [clients |-> {}, body |-> 0]

NoIngest ==
    /\ ingest_call = NoIngestCall
    /\ ingest_posts = [c \in {} |-> 0]
    /\ ingest_reply = "none"

\* No LocalTimeout has been given to a round manager.
NotForwarded == [round |-> 0, scheduled_in |-> 0, to |-> 0]

\* channel::new(1_024, ..): no round timeout is pending.
NoTimeout == timeout_rx = <<>> /\ forwarded = NotForwarded

\* QuorumStore::new, send by send: nothing was sent.
NothingSent ==
    /\ wPc = "recv"
    /\ wBatch = None
    /\ wSent = 0
    /\ appended = {}
    /\ pb_channel = <<>>
    /\ broadcasted = {}
    /\ persisted = {}
    /\ wAsked = <<>>
    /\ wAcked = <<>>

\* commit and sync_to calls made in a run; write_mutex has them run one
\* after the other.
MaxCalls == 2

\* ExecutionProxy::new, call by call: no call was made, both channels are
\* empty.
NothingCalled ==
    /\ scPc = "idle"
    /\ scDone = 0
    /\ scCalls = <<>>
    /\ scTrace = [id \in 1..MaxCalls |-> <<>>]
    /\ sync_rx = <<>>
    /\ notify_rx = <<>>

\* The functions looked at on their own have not been called.
NotCalled ==
    NoCommit /\ NoElection /\ NoIngest /\ NoTimeout /\ NothingSent /\ NothingCalled

\* The epoch manager as constructed; no quorum store worker runs.
Init ==
    /\ EpochManagerNew /\ QuorumStoreOff /\ ProofBuilderOff /\ ExecutionProxyNew
    /\ NotCalled

\* A quorum store worker as constructed, beside an epoch manager that is left
\* as constructed.
InitQS ==
    /\ EpochManagerNew /\ use_quorum_store
    /\ QuorumStoreNew /\ ProofBuilderOff /\ ExecutionProxyNew
    /\ NotCalled

\* A proof builder as constructed, beside an epoch manager and a worker that
\* are left as constructed.
InitPB ==
    /\ EpochManagerNew /\ use_quorum_store
    /\ QuorumStoreOff /\ ProofBuilderNew /\ ExecutionProxyNew
    /\ NotCalled

\* An ExecutionProxy as constructed, beside an epoch manager that is left as
\* constructed.
InitEP ==
    /\ EpochManagerNew /\ ~use_quorum_store
    /\ QuorumStoreOff /\ ProofBuilderOff /\ ExecutionProxyNew
    /\ NotCalled

\* ------------------------------------------------------- starting an epoch
\* start_round_manager: num_network_workers_for_fragment of the new epoch.
NumFragmentWorkers(verifier) ==
    IF Cardinality(verifier) \div NumNodesPerWorkerHandles >= 1
    THEN Cardinality(verifier) \div NumNodesPerWorkerHandles
    ELSE 1

\* spawn_quorum_store: the number of listener channels created.
NumListenerChannels(n) == n + 2

\* start_round_manager, from full recovery data.
StartRoundManager(e, verifier, decoupled) ==
    /\ IF use_quorum_store
       THEN /\ num_network_workers_for_fragment' = NumFragmentWorkers(verifier)
            /\ quorum_store_msg_tx_vec' =
                 [i \in 1 .. NumListenerChannels(NumFragmentWorkers(verifier)) |-> e]
            /\ qsChan' =
                 [i \in 1 .. NumListenerChannels(NumFragmentWorkers(verifier)) |->
                    EmptyChan(PeerKeys)]
            /\ liveListeners' = liveListeners \cup {e}
            /\ wrapper_quorum_store_tx' = e
            /\ wrapperChan' = EmptyChan(PeerKeys)
            /\ liveWrapper' = liveWrapper \cup {e}
       ELSE UNCHANGED <<num_network_workers_for_fragment, quorum_store_msg_tx_vec,
                        qsChan, liveListeners, wrapper_quorum_store_tx,
                        wrapperChan, liveWrapper>>
    /\ IF decoupled
       THEN /\ buffer_manager_msg_tx' = e
            /\ buffer_manager_reset_tx' = e
            /\ bmChan' = EmptyChan(PeerKeys)
            /\ liveBM' = liveBM \cup {e}
       ELSE UNCHANGED <<buffer_manager_msg_tx, buffer_manager_reset_tx, bmChan, liveBM>>
    /\ round_manager_tx' = e
    /\ round_manager_close_tx' = e
    /\ rmChan' = EmptyChan(RoundManagerKeys)
    /\ rmMode' = "round"
    /\ liveRM' = liveRM \cup {e}
    /\ block_retrieval_tx' = e
    /\ brtChan' = EmptyChan(PeerKeys)
    /\ liveBRT' = liveBRT \cup {e}

\* start_recovery_manager, were it to start a block-retrieval task too.
StartRecoveryManager_AsRoundManager(e) ==
    /\ round_manager_tx' = e
    /\ round_manager_close_tx' = e
    /\ rmChan' = EmptyChan(RoundManagerKeys)
    /\ rmMode' = "recovery"
    /\ liveRM' = liveRM \cup {e}
    /\ block_retrieval_tx' = e
    /\ brtChan' = EmptyChan(PeerKeys)
    /\ liveBRT' = liveBRT \cup {e}
    /\ UNCHANGED <<buffer_manager_msg_tx, buffer_manager_reset_tx,
                   wrapper_quorum_store_tx, num_network_workers_for_fragment,
                   quorum_store_msg_tx_vec, liveWrapper, liveBM,
                   liveListeners, bmChan, wrapperChan, qsChan>>

\* start_recovery_manager, from partial recovery data.
StartRecoveryManager(e) ==
    /\ round_manager_tx' = e
    /\ round_manager_close_tx' = e
    /\ rmChan' = EmptyChan(RoundManagerKeys)
    /\ rmMode' = "recovery"
    /\ liveRM' = liveRM \cup {e}
    /\ UNCHANGED <<buffer_manager_msg_tx, buffer_manager_reset_tx, block_retrieval_tx,
                   wrapper_quorum_store_tx, num_network_workers_for_fragment,
                   quorum_store_msg_tx_vec, liveWrapper, liveBM, liveBRT,
                   liveListeners, bmChan, wrapperChan, brtChan, qsChan>>

\* Variant: partial recovery data starts no manager.
StartNewEpoch_FullOnly(e, verifier, recovery, decoupled) ==
    /\ epoch_state' = [epoch |-> e, verifier |-> verifier]
    /\ IF recovery = "Full"
       THEN StartRoundManager(e, verifier, decoupled)
       ELSE UNCHANGED <<handles, rmMode, actors, chans>>

\* start_new_epoch(payload): the payload's epoch and validator set, what
\* storage.start() returns and the decoupled-execution flag of the config in
\* use: onchain_config.unwrap_or_default().
StartNewEpoch(e, verifier, recovery, decoupled) ==
    /\ epoch_state' = [epoch |-> e, verifier |-> verifier]
    /\ IF recovery = "Full"
       THEN StartRoundManager(e, verifier, decoupled)
       ELSE StartRecoveryManager(e)

\* The reconfiguration notification handled last: its epoch, whether its
\* on-chain consensus config could be read, the epoch that was current when
\* it came, and what storage.start() returned.
Started(e, onchainOk, recovery) ==
    Outcome(Msg("ReconfigNotification", Author, e, onchainOk, epoch, 0), recovery,
            {}, "none", 0, FALSE, "no")

\* await_reconfig_notification: the first one in start(), later ones at the
\* end of initiate_new_epoch.  The notification that follows sync_to(li) is
\* the one of li's next epoch.
AwaitReconfigNotification ==
    /\ pc \in {"init", "reconfig"}
    /\ \E e \in Epochs, verifier \in ValidatorSets, onchainOk \in BOOLEAN,
          recovery \in {"Full", "Partial"}, decoupled \in BOOLEAN :
         /\ pc = "reconfig" => e = pendingLI
         /\ StartNewEpoch(e, verifier, recovery, decoupled)
         /\ last' = Started(e, onchainOk, recovery)
    /\ pc' = "idle"
    /\ pendingLI' = 0
    /\ shutLog' = <<>>
    /\ UNCHANGED <<use_quorum_store, signals>>

\* ------------------------------------------------------------- shutdown
\* shutdown_current_processor, step (a): the close signal to the round manager.
ShutdownRoundManager ==
    /\ pc = "sd_rm"
    /\ IF round_manager_close_tx # None
       THEN /\ closeReq' = closeReq \cup {<<"rm", round_manager_close_tx>>}
            /\ shutLog' = Append(shutLog, "rm_close")
            /\ pc' = "sd_rm_ack"
       ELSE /\ pc' = "sd_wrapper"
            /\ UNCHANGED <<closeReq, shutLog>>
    /\ round_manager_close_tx' = None
    /\ last' = NoLast
    /\ UNCHANGED <<use_quorum_store, rmMode, epoch_state, round_manager_tx,
                   buffer_manager_msg_tx, buffer_manager_reset_tx, block_retrieval_tx,
                   wrapper_quorum_store_tx, num_network_workers_for_fragment,
                   quorum_store_msg_tx_vec, pendingLI, actors, acked, chans>>

\* Variant: step (a) does not wait for the acknowledgment.
AwaitRoundManagerAck_NoWait ==
    /\ pc = "sd_rm_ack"
    /\ pc' = "sd_wrapper"
    /\ shutLog' = Append(shutLog, "rm_ack")
    /\ last' = NoLast
    /\ UNCHANGED <<use_quorum_store, rmMode, epoch_state, handles, pendingLI, actors,
                   signals, chans>>

\* ack_rx.await of step (a).
AwaitRoundManagerAck ==
    /\ pc = "sd_rm_ack"
    /\ "rm" \in acked
    /\ acked' = acked \ {"rm"}
    /\ shutLog' = Append(shutLog, "rm_ack")
    /\ pc' = "sd_wrapper"
    /\ last' = NoLast
    /\ UNCHANGED <<use_quorum_store, rmMode, epoch_state, handles, pendingLI, actors,
                   closeReq, chans>>

\* step (b): round_manager_tx = None, then the stop signal to the wrapper.
ShutdownWrapper ==
    /\ pc = "sd_wrapper"
    /\ round_manager_tx' = None
    /\ rmMode' = "none"
    /\ IF wrapper_quorum_store_tx # None
       THEN /\ closeReq' = closeReq \cup {<<"wrapper", wrapper_quorum_store_tx>>}
            /\ shutLog' = Append(shutLog, "wrapper_stop")
            /\ pc' = "sd_wrapper_ack"
       ELSE /\ pc' = "sd_bm"
            /\ UNCHANGED <<closeReq, shutLog>>
    /\ wrapper_quorum_store_tx' = None
    /\ last' = NoLast
    /\ UNCHANGED <<use_quorum_store, epoch_state, round_manager_close_tx,
                   buffer_manager_msg_tx, buffer_manager_reset_tx, block_retrieval_tx,
                   num_network_workers_for_fragment, quorum_store_msg_tx_vec,
                   pendingLI, actors, acked, chans>>

\* Variant: step (b) ends before the wrapper has acknowledged.
AwaitWrapperAck_NoWait ==
    /\ pc = "sd_wrapper_ack"
    /\ pc' = "sd_bm"
    /\ last' = NoLast
    /\ UNCHANGED <<use_quorum_store, rmMode, epoch_state, handles, pendingLI, actors,
                   signals, shutLog, chans>>

\* ack_rx.await of step (b).
AwaitWrapperAck ==
    /\ pc = "sd_wrapper_ack"
    /\ "wrapper" \in acked
    /\ acked' = acked \ {"wrapper"}
    /\ shutLog' = Append(shutLog, "wrapper_ack")
    /\ pc' = "sd_bm"
    /\ last' = NoLast
    /\ UNCHANGED <<use_quorum_store, rmMode, epoch_state, handles, pendingLI, actors,
                   closeReq, chans>>

\* step (c): buffer_manager_msg_tx = None, then ResetRequest {stop: true}.
ShutdownBufferManager ==
    /\ pc = "sd_bm"
    /\ buffer_manager_msg_tx' = None
    /\ IF buffer_manager_reset_tx # None
       THEN /\ closeReq' = closeReq \cup {<<"bm", buffer_manager_reset_tx>>}
            /\ shutLog' = shutLog \o <<"bm_clear", "bm_reset_stop">>
            /\ pc' = "sd_bm_ack"
       ELSE /\ shutLog' = Append(shutLog, "bm_clear")
            /\ pc' = "sd_brt"
            /\ UNCHANGED closeReq
    /\ buffer_manager_reset_tx' = None
    /\ last' = NoLast
    /\ UNCHANGED <<use_quorum_store, rmMode, epoch_state, round_manager_tx,
                   round_manager_close_tx, block_retrieval_tx, wrapper_quorum_store_tx,
                   num_network_workers_for_fragment, quorum_store_msg_tx_vec,
                   pendingLI, actors, acked, chans>>

\* Variant: step (c) awaits the acknowledgment of step (a) once more.
AwaitBufferManagerAck_WrongAck ==
    /\ pc = "sd_bm_ack"
    /\ "rm" \in acked
    /\ acked' = acked \ {"rm"}
    /\ shutLog' = Append(shutLog, "bm_ack")
    /\ pc' = "sd_brt"
    /\ last' = NoLast
    /\ UNCHANGED <<use_quorum_store, rmMode, epoch_state, handles, pendingLI, actors,
                   closeReq, chans>>

\* ack_rx.await of step (c).
AwaitBufferManagerAck ==
    /\ pc = "sd_bm_ack"
    /\ "bm" \in acked
    /\ acked' = acked \ {"bm"}
    /\ shutLog' = Append(shutLog, "bm_ack")
    /\ pc' = "sd_brt"
    /\ last' = NoLast
    /\ UNCHANGED <<use_quorum_store, rmMode, epoch_state, handles, pendingLI, actors,
                   closeReq, chans>>

\* step (d): block_retrieval_tx = None; shutdown_current_processor returns.
DropBlockRetrieval ==
    /\ pc = "sd_brt"
    /\ block_retrieval_tx' = None
    /\ shutLog' = Append(shutLog, "brt_drop")
    /\ pc' = "sync"
    /\ last' = NoLast
    /\ UNCHANGED <<use_quorum_store, rmMode, epoch_state, round_manager_tx,
                   round_manager_close_tx, buffer_manager_msg_tx,
                   buffer_manager_reset_tx, wrapper_quorum_store_tx,
                   num_network_workers_for_fragment, quorum_store_msg_tx_vec,
                   pendingLI, actors, signals, chans>>

\* Variant: a failed sync_to is ignored.
SyncTo_NoPanic ==
    /\ pc = "sync"
    /\ \E ok \in BOOLEAN :
         /\ pc' = "reconfig"
         /\ shutLog' = Append(shutLog, IF ok THEN "sync_ok" ELSE "sync_failed")
    /\ last' = NoLast
    /\ UNCHANGED <<use_quorum_store, rmMode, epoch_state, handles, pendingLI, actors,
                   signals, chans>>

\* initiate_new_epoch: commit_state_computer.sync_to(ledger_info), and the
\* expect() on its result.
SyncTo ==
    /\ pc = "sync"
    /\ \E ok \in BOOLEAN :
         /\ pc' = IF ok THEN "reconfig" ELSE "panicked"
         /\ shutLog' = Append(shutLog, IF ok THEN "sync_ok" ELSE "sync_failed")
    /\ last' = NoLast
    /\ UNCHANGED <<use_quorum_store, rmMode, epoch_state, handles, pendingLI, actors,
                   signals, chans>>



\* ------------------------------------------------------ the per-epoch actors
\* The round manager (or recovery manager) takes the close signal, stops and
\* acknowledges.
RoundManagerClose ==
    /\ \E e \in Epochs :
         /\ <<"rm", e>> \in closeReq
         /\ closeReq' = closeReq \ {<<"rm", e>>}
         /\ liveRM' = liveRM \ {e}
    /\ acked' = acked \cup {"rm"}
    /\ rmChan' = EmptyChan(RoundManagerKeys)
    /\ last' = NoLast
    /\ UNCHANGED <<pc, use_quorum_store, epoch_state, handles, pendingLI, rmMode,
                   liveWrapper, liveBM, liveBRT, liveListeners, shutLog,
                   bmChan, wrapperChan, brtChan, qsChan>>

\* The wrapper takes the stop signal, has the QuorumStore worker shut down
\* (QuorumStoreCommand::Shutdown: batch store, proof builder and every
\* network listener stop), and acknowledges.
WrapperStop ==
    /\ \E e \in Epochs :
         /\ <<"wrapper", e>> \in closeReq
         /\ closeReq' = closeReq \ {<<"wrapper", e>>}
         /\ liveWrapper' = liveWrapper \ {e}
         /\ liveListeners' = liveListeners \ {e}
    /\ acked' = acked \cup {"wrapper"}
    /\ wrapperChan' = EmptyChan(PeerKeys)
    /\ qsChan' = [i \in DOMAIN qsChan |-> EmptyChan(PeerKeys)]
    /\ last' = NoLast
    /\ UNCHANGED <<pc, use_quorum_store, epoch_state, handles, pendingLI, rmMode,
                   liveRM, liveBM, liveBRT, shutLog, rmChan, bmChan, brtChan>>

\* The buffer manager takes ResetRequest {stop: true}, stops and acknowledges.
BufferManagerReset ==
    /\ \E e \in Epochs :
         /\ <<"bm", e>> \in closeReq
         /\ closeReq' = closeReq \ {<<"bm", e>>}
         /\ liveBM' = liveBM \ {e}
    /\ acked' = acked \cup {"bm"}
    /\ bmChan' = EmptyChan(PeerKeys)
    /\ last' = NoLast
    /\ UNCHANGED <<pc, use_quorum_store, epoch_state, handles, pendingLI, rmMode,
                   liveRM, liveWrapper, liveBRT, liveListeners, shutLog,
                   rmChan, wrapperChan, brtChan, qsChan>>

\* spawn_block_retrieval_task: the task's loop ends once its sender is
\* dropped and its channel is drained.
BlockRetrievalTaskStops ==
    /\ \E e \in liveBRT :
         /\ block_retrieval_tx # e
         /\ liveBRT' = liveBRT \ {e}
    /\ ~Busy(brtChan)
    /\ last' = NoLast
    /\ UNCHANGED <<pc, use_quorum_store, epoch_state, handles, pendingLI, rmMode,
                   liveRM, liveWrapper, liveBM, liveListeners, signals, shutLog,
                   chans>>

\* Variant: the round manager's channel keeps the older event of a key.
RoundManagerQueueStyle_Fifo == "FIFO"

\* start_round_manager, start_recovery_manager: the queue style of the round
\* manager's (recovery manager's) channel.
RoundManagerQueueStyle == "LIFO"

\* Variant: the round manager's channel with the capacity of the others.
RoundManagerCapacity_ChannelSize == ChannelSize

\* start_round_manager, start_recovery_manager: the capacity per key.
RoundManagerCapacity == RoundManagerQueueSize

\* Variant: the block-retrieval channel keeps the older request of a peer.
BlockRetrievalQueueStyle_Fifo == "FIFO"

\* spawn_block_retrieval_task: the queue style of the task's channel.
BlockRetrievalQueueStyle == "LIFO"

\* spawn_block_retrieval_task: request_rx.next() of the task.
BlockRetrievalRecv ==
    /\ \E k \in DOMAIN brtChan :
         /\ brtChan[k] # <<>>
         /\ brtChan' = ChanPop(brtChan, k, BlockRetrievalQueueStyle)
         /\ last' = NoLast
    /\ UNCHANGED <<pc, use_quorum_store, epoch_state, handles, pendingLI, rmMode,
                   actors, signals, shutLog, rmChan, bmChan, wrapperChan, qsChan>>

\* The round manager takes the next event of some key of its channel.
RoundManagerRecv ==
    /\ \E k \in DOMAIN rmChan :
         /\ rmChan[k] # <<>>
         /\ rmChan' = ChanPop(rmChan, k, RoundManagerQueueStyle)
         /\ last' = Taken("rm", 0, k[1],
                          rmChan[k][PopPos(rmChan, k, RoundManagerQueueStyle)],
                          PopPos(rmChan, k, RoundManagerQueueStyle))
    /\ UNCHANGED <<pc, use_quorum_store, epoch_state, handles, pendingLI, rmMode,
                   actors, signals, shutLog, bmChan, wrapperChan, brtChan, qsChan>>

\* The buffer manager takes the next commit message of some peer.
BufferManagerRecv ==
    /\ \E k \in DOMAIN bmChan :
         /\ bmChan[k] # <<>>
         /\ bmChan' = ChanPop(bmChan, k, "FIFO")
         /\ last' = NoLast
    /\ UNCHANGED <<pc, use_quorum_store, epoch_state, handles, pendingLI, rmMode,
                   actors, signals, shutLog, rmChan, wrapperChan, brtChan, qsChan>>

\* The wrapper takes the next proof-of-store broadcast of some peer.
WrapperRecv ==
    /\ \E k \in DOMAIN wrapperChan :
         /\ wrapperChan[k] # <<>>
         /\ wrapperChan' = ChanPop(wrapperChan, k, "FIFO")
         /\ last' = NoLast
    /\ UNCHANGED <<pc, use_quorum_store, epoch_state, handles, pendingLI, rmMode,
                   actors, signals, shutLog, rmChan, bmChan, brtChan, qsChan>>

\* Variant: listener channels with the queue style of the round manager's.
ListenerQueueStyle_Lifo == "LIFO"

\* spawn_quorum_store: the queue style of the listener channels.
ListenerQueueStyle == "FIFO"

\* Network listener i takes the next event of some peer of its channel.
ListenerRecv ==
    /\ \E i \in DOMAIN qsChan :
         \E k \in DOMAIN qsChan[i] :
            /\ qsChan[i][k] # <<>>
            /\ qsChan' = [qsChan EXCEPT ![i] = ChanPop(@, k, ListenerQueueStyle)]
            /\ last' = Taken("listener", i - 1, k,
                             qsChan[i][k][PopPos(qsChan[i], k, ListenerQueueStyle)],
                             PopPos(qsChan[i], k, ListenerQueueStyle))
    /\ UNCHANGED <<pc, use_quorum_store, epoch_state, handles, pendingLI, rmMode,
                   actors, signals, shutLog, rmChan, bmChan, wrapperChan, brtChan>>

\* ------------------------------------------------------- message handlers
\* What a handler that only answers or rejects leaves alone.
emState == <<pc, use_quorum_store, epoch_state, handles, pendingLI, rmMode,
             actors, signals, shutLog>>

\* The channels that hold a pending event.
BusyChannels ==
    { <<n, 0>> : n \in { x \in {"rm", "bm", "wrapper", "brt"} :
                           CASE x = "rm" -> Busy(rmChan)
                             [] x = "bm" -> Busy(bmChan)
                             [] x = "wrapper" -> Busy(wrapperChan)
                             [] x = "brt" -> Busy(brtChan) } }
    \cup { <<"listener", i>> : i \in { j \in DOMAIN qsChan : Busy(qsChan[j]) } }

\* Bounds on a push, on the channel `name` whose queues hold `cap` events
\* each: the other channels are empty and the channel holds at most
\* MaxPending(cap) events (a push on a full queue adds none).
MaxPending(cap) == IF cap = 1 THEN 2 ELSE cap

MayPush(name, ch, key, cap) ==
    /\ BusyChannels \subseteq {name}
    /\ Len(ch[key]) >= cap \/ ChanLen(ch) < MaxPending(cap)

\* The handlers that answer, reject or start the shutdown neither read nor
\* write the channels: they are taken with the channels empty, which bounds
\* the state space and removes no behaviour of these handlers.
Quiescent == BusyChannels = {}

\* start: the select loop waits for its next input.
Selecting == pc = "idle" /\ last = NoLast

\* start: the result of the handler is logged and the loop goes round (the
\* outcome of an actor's step is likewise forgotten).
NextIteration ==
    /\ pc = "idle"
    /\ last # NoLast
    /\ last' = NoLast
    /\ UNCHANGED <<emState, chans>>

\* The handler returns Err and nothing else happens.  (Outcomes that push
\* nothing are explored from the states whose channels are empty.)
Reject(m) ==
    /\ Quiescent
    /\ last' = Outcome(m, "err", {}, "none", 0, FALSE, "no")
    /\ UNCHANGED <<emState, chans>>

\* The handler panics: the epoch manager task is gone.
Panic(m) ==
    /\ Quiescent
    /\ pc' = "panicked"
    /\ last' = Outcome(m, "panic", {}, "none", 0, FALSE, "no")
    /\ UNCHANGED <<use_quorum_store, epoch_state, handles, pendingLI, rmMode,
                   actors, signals, shutLog, chans>>

\* Variant: verification accepts everything.
Verified_Skipped(m) == TRUE

\* unverified_event.verify(peer_id, &self.epoch_state().verifier)
Verified(m) == m.ok

\* Variant: every event goes to the round manager.
EventTarget_AllToRoundManager(kind) ==
    CASE kind \in {"BatchMsg", "SignedDigestMsg", "FragmentMsg"} -> "listener"
      [] OTHER -> "rm"

\* process_event: the match arm an event takes.
EventTarget(kind) ==
    CASE kind = "ProofOfStoreBroadcastMsg" -> "wrapper"
      [] kind \in {"BatchMsg", "SignedDigestMsg", "FragmentMsg"} -> "listener"
      [] kind \in BufferManagerKinds -> "bm"
      [] OTHER -> "rm"

\* Variant: the index without the offset of the two fixed listeners.
FragmentIdx_NoOffset(peer, n) == peer % n

\* process_event: index of the listener of a Fragment event (0-based).
FragmentIdx(peer, n) == (peer % n) + 2

\* process_event: index into quorum_store_msg_tx_vec (0-based).
ListenerIdx(kind, peer) ==
    CASE kind = "BatchMsg" -> 0
      [] kind = "SignedDigestMsg" -> 1
      [] OTHER -> FragmentIdx(peer, num_network_workers_for_fragment)

\* process_event and forward_to_round_manager, on a verified event.
ProcessEvent(m) ==
    LET t == EventTarget(m.kind)
        idx == IF t = "listener" THEN ListenerIdx(m.kind, m.peer) ELSE 0
        handle == CASE t = "wrapper" -> wrapper_quorum_store_tx
                    [] t = "bm" -> buffer_manager_msg_tx
                    [] t = "rm" -> round_manager_tx
                    [] t = "listener" ->
                         IF idx < Len(quorum_store_msg_tx_vec)
                         THEN quorum_store_msg_tx_vec[idx + 1] ELSE None
        live == CASE t = "wrapper" -> liveWrapper
                  [] t = "bm" -> liveBM
                  [] t = "rm" -> liveRM
                  [] t = "listener" -> liveListeners
        key == IF t = "rm" THEN <<m.peer, m.kind>> ELSE m.peer
        style == CASE t = "rm" -> RoundManagerQueueStyle
                   [] t = "listener" -> ListenerQueueStyle
                   [] OTHER -> "FIFO"
        cap == IF t = "rm" THEN RoundManagerCapacity ELSE ChannelSize
        ch == CASE t = "wrapper" -> wrapperChan
                [] t = "bm" -> bmChan
                [] t = "rm" -> rmChan
                [] t = "listener" -> IF idx + 1 \in DOMAIN qsChan
                                     THEN qsChan[idx + 1] ELSE EmptyChan(PeerKeys)
        new == ChanPush(ch, key, Entry(m, IF style = "FIFO" THEN 0 ELSE NextBit(ch, key)),
                        style, cap)
    IN  IF handle = None
        THEN \* indexing an empty vector and expect() on None panic; the
             \* other two arms bail
             IF t \in {"listener", "rm"} THEN Panic(m) ELSE Reject(m)
        ELSE IF handle \notin live
        THEN \* push on a channel whose receiver is dropped fails; only
             \* forward_to_round_manager swallows the error
             /\ Quiescent
             /\ last' = Outcome(m, IF t = "rm" THEN "ok" ELSE "err", {},
                                "none", 0, FALSE, "no")
             /\ UNCHANGED <<emState, chans>>
        ELSE /\ MayPush(<<t, IF t = "listener" THEN idx + 1 ELSE 0>>, ch, key, cap)
             /\ wrapperChan' = IF t = "wrapper" THEN new ELSE wrapperChan
             /\ bmChan' = IF t = "bm" THEN new ELSE bmChan
             /\ rmChan' = IF t = "rm" THEN new ELSE rmChan
             /\ qsChan' = IF t = "listener"
                          THEN [qsChan EXCEPT ![idx + 1] = new] ELSE qsChan
             /\ last' = Outcome(m, "ok", {}, t, idx, Len(ch[key]) >= cap, "no")
             /\ UNCHANGED <<emState, brtChan>>

\* process_epoch_retrieval(request {lo, hi}, peer): read the proof from
\* storage, then send it to the peer.  dbOk, netOk: whether the storage
\* read and the network send succeed.
EpochRetrievalOutcome(m, lo, hi, peer, dbOk, netOk) ==
    IF dbOk
    THEN Outcome(m, IF netOk THEN "ok" ELSE "err",
                 {[to |-> peer, kind |-> "EpochChangeProof", lo |-> lo, hi |-> hi]},
                 "none", 0, FALSE, "ok")
    ELSE Outcome(m, "err", {}, "none", 0, FALSE, "failed")

\* Variant: a lower epoch is answered with a proof whatever the validator set.
DifferentEpochOutcome_AlwaysReply(m, dbOk, netOk) ==
    IF m.epoch < epoch
    THEN EpochRetrievalOutcome(m, m.epoch, epoch, m.peer, dbOk, netOk)
    ELSE Outcome(m, IF netOk THEN "ok" ELSE "err",
                 {[to |-> m.peer, kind |-> "EpochRetrievalRequest",
                   lo |-> epoch, hi |-> m.epoch]},
                 "none", 0, FALSE, "no")

\* process_different_epoch(different_epoch, peer_id); m holds the two
\* parameters.
DifferentEpochOutcome(m, dbOk, netOk) ==
    IF m.epoch < epoch
    THEN IF Author \in epoch_state.verifier
         THEN Outcome(m, "ok", {}, "none", 0, FALSE, "no")
         ELSE EpochRetrievalOutcome(m, m.epoch, epoch, m.peer, dbOk, netOk)
    ELSE IF m.epoch > epoch
    THEN Outcome(m, IF netOk THEN "ok" ELSE "err",
                 {[to |-> m.peer, kind |-> "EpochRetrievalRequest",
                   lo |-> epoch, hi |-> m.epoch]},
                 "none", 0, FALSE, "no")
    ELSE Outcome(m, "err", {}, "none", 0, FALSE, "no")

\* process_message and check_epoch on an epoch-carrying message.
ProcessEventMsg(m) ==
    /\ Selecting
    /\ IF m.epoch # epoch
       THEN /\ Quiescent
            /\ \E dbOk \in BOOLEAN, netOk \in BOOLEAN :
                 last' = DifferentEpochOutcome(
                             Msg("DifferentEpoch", m.peer, m.epoch, FALSE, 0, 0),
                             dbOk, netOk)
            /\ UNCHANGED <<emState, chans>>
       ELSE IF ~Verified(m)
       THEN Quiescent /\ Reject(m)
       ELSE ProcessEvent(m)

\* Variant: a verifying proof is applied whatever its epoch.
ProcessEpochChangeProof_AnyEpoch(m) ==
    /\ Selecting
    /\ Quiescent
    /\ IF m.epoch # 0 /\ m.ok
       THEN /\ pc' = "sd_rm"
            /\ pendingLI' = m.hi
            /\ shutLog' = <<>>
            /\ last' = Outcome(m, "shutdown", {}, "none", 0, FALSE, "no")
            /\ UNCHANGED <<use_quorum_store, epoch_state, handles, rmMode, actors,
                           signals, chans>>
       ELSE Reject(m)

\* check_epoch on an EpochChangeProof, and initiate_new_epoch up to the
\* call of shutdown_current_processor.
\* Variant: a verifying proof of an earlier epoch is applied too.
ProcessEpochChangeProof_EarlierEpoch(m) ==
    /\ Selecting
    /\ Quiescent
    /\ IF m.epoch <= epoch /\ m.epoch # 0 /\ m.ok
       THEN /\ pc' = "sd_rm"
            /\ pendingLI' = m.hi
            /\ shutLog' = <<>>
            /\ last' = Outcome(m, "shutdown", {}, "none", 0, FALSE, "no")
            /\ UNCHANGED <<use_quorum_store, epoch_state, handles, rmMode, actors,
                           signals, chans>>
       ELSE Reject(m)

ProcessEpochChangeProof(m) ==
    /\ Selecting
    /\ Quiescent
    /\ IF m.epoch = epoch /\ m.epoch # 0 /\ m.ok
       THEN /\ pc' = "sd_rm"
            /\ pendingLI' = m.hi
            /\ shutLog' = <<>>
            /\ last' = Outcome(m, "shutdown", {}, "none", 0, FALSE, "no")
            /\ UNCHANGED <<use_quorum_store, epoch_state, handles, rmMode, actors,
                           signals, chans>>
       ELSE Reject(m)

\* Variant: the request is served whatever its end epoch.
ProcessEpochRetrievalRequest_NoBound(m) ==
    /\ Selecting
    /\ Quiescent
    /\ \E dbOk \in BOOLEAN, netOk \in BOOLEAN :
         last' = EpochRetrievalOutcome(m, m.lo, m.hi, m.peer, dbOk, netOk)
    /\ UNCHANGED <<emState, chans>>

\* check_epoch on an EpochRetrievalRequest.
ProcessEpochRetrievalRequest(m) ==
    /\ Selecting
    /\ Quiescent
    /\ IF m.hi <= epoch
       THEN \E dbOk \in BOOLEAN, netOk \in BOOLEAN :
                last' = EpochRetrievalOutcome(m, m.lo, m.hi, m.peer, dbOk, netOk)
       ELSE last' = Outcome(m, "err", {}, "none", 0, FALSE, "no")
    /\ UNCHANGED <<emState, chans>>

\* check_epoch on any other message.
ProcessUnexpected(m) ==
    /\ Selecting
    /\ Quiescent
    /\ Reject(m)

\* process_local_timeout(round)
ProcessLocalTimeout ==
    /\ Selecting
    /\ ProcessEvent(Msg("LocalTimeout", Author, epoch, TRUE, 0, 0))

\* process_block_retrieval(peer_id, request)
ProcessBlockRetrieval(peer) ==
    LET m == Msg("BlockRetrievalRequest", peer, epoch, TRUE, 0, 0) IN
    /\ Selecting
    /\ IF block_retrieval_tx = None \/ block_retrieval_tx \notin liveBRT
       THEN Reject(m)
       ELSE /\ MayPush(<<"brt", 0>>, brtChan, peer, BlockRetrievalQueueSize)
            /\ brtChan' = ChanPush(brtChan, peer, Entry(m, NextBit(brtChan, peer)),
                                   BlockRetrievalQueueStyle, BlockRetrievalQueueSize)
            /\ last' = Outcome(m, "ok", {}, "brt", 0,
                               Len(brtChan[peer]) >= BlockRetrievalQueueSize, "no")
            /\ UNCHANGED <<emState, rmChan, bmChan, wrapperChan, qsChan>>

\* --------------------------------------------------- the QuorumStore worker
\* config.max_batch_bytes, scaled down.
MaxBatchBytes == 3

\* The payload of a command is one serialized transaction of 1..MaxPayloadBytes
\* bytes.
MaxPayloadBytes == 2

Payloads == 1..MaxPayloadBytes

\* LogicalTime values an EndBatch may carry.
MaxExpiration == 2

Expirations == 1..MaxExpiration

RECURSIVE NumBytes(_)
\* The bytes of a sequence of transactions.
NumBytes(payload) ==
    IF payload = <<>> THEN 0 ELSE Head(payload) + NumBytes(Tail(payload))

SizeLimitExceeded_Unchecked(agg, p) == FALSE

\* BatchAggregator: the total bytes would exceed max_batch_bytes.
SizeLimitExceeded(agg, p) == NumBytes(agg.payload) + p > MaxBatchBytes

\* BatchAggregator::append_transactions returns Err.
AppendFails(agg, batch_id, frag_id, p) ==
    \/ agg.batch_id # None /\ agg.batch_id # batch_id
    \/ frag_id # agg.next_fragment_id
    \/ SizeLimitExceeded(agg, p)

\* BatchAggregator::append_transactions returning Ok: the aggregator after it.
AppendTransactions(agg, batch_id, p) ==
    [batch_id |-> batch_id, next_fragment_id |-> agg.next_fragment_id + 1,
     payload |-> Append(agg.payload, p)]

\* BatchAggregator::end_batch returning Ok((num_bytes, payload, digest)); the
\* digest of a payload is modelled by the payload.
EndBatchResult(agg, batch_id, p) ==
    LET done == AppendTransactions(agg, batch_id, p)
    IN  [num_bytes |-> NumBytes(done.payload), payload |-> done.payload,
         digest |-> done.payload]

\* Variant: only the first fragment of a batch may carry the expiration.
Fragment_NoExpiration(batch_id, frag_id, p, expiration) ==
    [batch_id |-> batch_id, fragment_id |-> frag_id, payload |-> p,
     expiration |-> IF frag_id = 0 THEN expiration ELSE None]

\* Fragment::new (epoch and author are those of the worker).
Fragment(batch_id, frag_id, p, expiration) ==
    [batch_id |-> batch_id, fragment_id |-> frag_id, payload |-> p,
     expiration |-> expiration]

\* The log of the batch in hand: empty again once the batch has ended.
InHand(log) == IF log # <<>> /\ log[Len(log)].expiration # None THEN <<>> ELSE log

NextFragmentId_Same(f) == f

\* start, AppendToBatch: self.fragment_id = self.fragment_id + 1
NextFragmentId(f) == f + 1

FragmentIdAfterEndBatch_Kept == fragment_id + 1

\* start, EndBatch: self.fragment_id = 0
FragmentIdAfterEndBatch == 0

\* The unreachable! of handle_append_to_batch and handle_end_batch.
WorkerPanics(cmd) ==
    /\ qsPc' = "panicked"
    /\ commands' = Append(InHand(commands), cmd)
    /\ UNCHANGED <<fragment_id, batch_aggregator, broadcast, batch_store_tx,
                   proof_builder_tx>>

\* start, QuorumStoreCommand::AppendToBatch with handle_append_to_batch.
AppendToBatch(p, batch_id) ==
    LET cmd == [kind |-> "AppendToBatch", batch_id |-> batch_id, payload |-> p,
                expiration |-> None]
    IN  /\ qsPc = "running"
        /\ IF AppendFails(batch_aggregator, batch_id, fragment_id, p)
           THEN WorkerPanics(cmd)
           ELSE /\ batch_aggregator' =
                       AppendTransactions(batch_aggregator, batch_id, p)
                /\ broadcast' = Append(InHand(broadcast),
                                       Fragment(batch_id, fragment_id, p, None))
                /\ fragment_id' = NextFragmentId(fragment_id)
                /\ commands' = Append(InHand(commands), cmd)
                /\ UNCHANGED <<qsPc, batch_store_tx, proof_builder_tx>>
        /\ UNCHANGED <<vars, builder, proxy, more>>

\* start, QuorumStoreCommand::EndBatch with handle_end_batch.
EndBatch(p, batch_id, expiration) ==
    LET cmd == [kind |-> "EndBatch", batch_id |-> batch_id, payload |-> p,
                expiration |-> expiration]
        res == EndBatchResult(batch_aggregator, batch_id, p)
    IN  /\ qsPc = "running"
        /\ IF AppendFails(batch_aggregator, batch_id, fragment_id, p)
           THEN WorkerPanics(cmd)
           ELSE /\ batch_aggregator' = NoBatch
                /\ proof_builder_tx' =
                       [kind |-> "InitProof", digest |-> res.digest,
                        expiration |-> expiration,
                        num_txns |-> Len(res.payload),
                        num_bytes |-> res.num_bytes, batch_id |-> batch_id]
                /\ broadcast' = Append(InHand(broadcast),
                                       Fragment(batch_id, fragment_id, p, expiration))
                /\ batch_store_tx' =
                       [kind |-> "Persist", author |-> Author,
                        payload |-> res.payload, digest |-> res.digest,
                        num_bytes |-> res.num_bytes, expiration |-> expiration]
                /\ fragment_id' = FragmentIdAfterEndBatch
                /\ commands' = Append(InHand(commands), cmd)
                /\ UNCHANGED qsPc
        /\ UNCHANGED <<vars, builder, proxy, more>>

\* start, QuorumStoreCommand::Shutdown: the batch store and the proof builder
\* are stopped and the loop is left.
WorkerShutdown ==
    /\ qsPc = "running"
    /\ qsPc' = "stopped"
    /\ batch_store_tx' = [kind |-> "Shutdown"]
    /\ proof_builder_tx' = [kind |-> "Shutdown"]
    /\ UNCHANGED <<fragment_id, batch_aggregator, commands, broadcast>>
    /\ UNCHANGED <<vars, builder, proxy, more>>

\* ------------------------------------------------------- the proof builder
\* The validators of the epoch.
NumValidators == 3

Validators == 1..NumValidators

\* The authors a signed digest may name: the validators and one other peer.
Signers == 1..(NumValidators + 1)

\* The last validator holds twice the voting power of each other one.
VotingPower(v) == IF v = NumValidators THEN 2 ELSE 1

RECURSIVE SumVotingPower(_)
\* The voting power of a set of validators.
SumVotingPower(signers) ==
    IF signers = {} THEN 0
    ELSE LET v == CHOOSE x \in signers : TRUE
         IN  VotingPower(v) + SumVotingPower(signers \ {v})

TotalVotingPower == SumVotingPower(Validators)

\* The quorum threshold of the epoch's validator set.
QuorumVotingPower == (TotalVotingPower * 2) \div 3 + 1

AlreadySigned_Ignored(author, signers) == FALSE

\* The author's signature is among the collected ones.
AlreadySigned(author, signers) == author \in signers

\* A signed digest is added: its signature is valid, its author is a validator
\* of the epoch, its digest is open and the author has not signed it before.
Counted(author, batch_id, valid) ==
    /\ valid
    /\ author \in Validators
    /\ proofs[batch_id].state = "open"
    /\ ~AlreadySigned(author, proofs[batch_id].signers)

StillOpen_Unchecked(batch_id) == TRUE

\* The watchdog finds the accumulator of the batch open.
StillOpen(batch_id) == proofs[batch_id].state = "open"

\* The accumulator of a batch whose return channel got its outcome.
ClosedProof == [state |-> "closed", signers |-> {}, power |-> 0]

\* handle_end_batch sends ProofBuilderCommand::InitProof(info, batch_id,
\* proof_tx); the builder opens the accumulator and arms its watchdog.
InitProof(batch_id) ==
    /\ pbPc = "running"
    /\ proofs[batch_id].state = "none"
    /\ proofs' = [proofs EXCEPT ![batch_id] =
                     [state |-> "open", signers |-> {}, power |-> 0]]
    /\ timers' = timers \cup {batch_id}
    /\ UNCHANGED <<pbPc, returned, pbLast>>
    /\ UNCHANGED <<vars, worker, proxy, more>>

\* A SignedDigest forwarded by a network listener: the accumulator keeps the
\* signers and the voting power they add up to.
AppendSignature(author, batch_id, valid) ==
    LET signers == proofs[batch_id].signers \cup {author}
        power == proofs[batch_id].power + VotingPower(author)
    IN  /\ pbPc = "running"
        /\ pbLast' = IF valid THEN "valid" ELSE "invalid"
        /\ IF ~Counted(author, batch_id, valid)
           THEN UNCHANGED <<proofs, returned>>
           ELSE IF power >= QuorumVotingPower
           THEN /\ proofs' = [proofs EXCEPT ![batch_id] = ClosedProof]
                /\ returned' = [returned EXCEPT ![batch_id] =
                                   Append(@, [kind |-> "ProofOfStore",
                                              batch_id |-> batch_id,
                                              signers |-> signers])]
           ELSE /\ proofs' = [proofs EXCEPT ![batch_id].signers = signers,
                                            ![batch_id].power = power]
                /\ UNCHANGED returned
        /\ UNCHANGED <<pbPc, timers>>
        /\ UNCHANGED <<vars, worker, proxy, more>>

\* The proof_timeout_ms watchdog of a batch fires.
ProofTimeout(batch_id) ==
    /\ pbPc = "running"
    /\ batch_id \in timers
    /\ timers' = timers \ {batch_id}
    /\ IF StillOpen(batch_id)
       THEN /\ proofs' = [proofs EXCEPT ![batch_id] = ClosedProof]
            /\ returned' = [returned EXCEPT ![batch_id] =
                               Append(@, [kind |-> "Timeout", batch_id |-> batch_id,
                                          signers |-> {}])]
       ELSE UNCHANGED <<proofs, returned>>
    /\ UNCHANGED <<pbPc, pbLast>>
    /\ UNCHANGED <<vars, worker, proxy, more>>

\* start, QuorumStoreCommand::Shutdown: ProofBuilderCommand::Shutdown is sent
\* and its acknowledgment awaited; the builder has stopped.
ProofBuilderShutdown ==
    /\ pbPc = "running"
    /\ pbPc' = "stopped"
    /\ UNCHANGED <<proofs, timers, returned, pbLast>>
    /\ UNCHANGED <<vars, worker, proxy, more>>

\* ----------------------------------------------------- the ExecutionProxy
\* commit calls made in a run.
MaxCommits == 2

\* sync_to calls made in a run.
MaxSyncs == 1

\* ExecutionProxy::new: channel::new(10, ..) of both notifiers.
NotifierChannelSize == 10

MutexAvailable_Always == TRUE

\* write_mutex.lock(): the mutex is not held.
MutexAvailable == ~write_mutex.locked

NextWaiter_Last == write_mutex.waiters[Len(write_mutex.waiters)]

\* write_mutex.lock(): the lock goes to the task that has waited longest.
NextWaiter == Head(write_mutex.waiters)

\* The caller's guard is dropped and its call returns.
Release(c) ==
    /\ write_mutex' = [write_mutex EXCEPT !.locked = FALSE]
    /\ callers' = [callers EXCEPT ![c] = Idle]

\* compute is called: it takes no lock.
ComputeCall(c) ==
    /\ callers[c] = Idle
    /\ callers' = [callers EXCEPT ![c] = [Idle EXCEPT !.op = "compute",
                                                        !.pc = "executing"]]
    /\ UNCHANGED <<write_mutex, nextCommit, syncs, executorLog, stateSyncQ,
                   stateSyncLog, commitQ, commitLog>>
    /\ UNCHANGED <<vars, worker, builder, more>>

\* compute returns: get_data failed, or execute_block ran and mempool was told
\* of the failed transactions.
ComputeReturn(c) ==
    /\ callers[c].op = "compute"
    /\ callers' = [callers EXCEPT ![c] = Idle]
    /\ UNCHANGED <<write_mutex, nextCommit, syncs, executorLog, stateSyncQ,
                   stateSyncLog, commitQ, commitLog>>
    /\ UNCHANGED <<vars, worker, builder, more>>

\* commit is called, with no block or with some: the caller waits for the
\* mutex.
CommitCall(c, empty) ==
    /\ callers[c] = Idle
    /\ nextCommit <= MaxCommits
    /\ callers' = [callers EXCEPT ![c] = [op |-> "commit", pc |-> "waiting",
                                          id |-> nextCommit, empty |-> empty]]
    /\ write_mutex' = [write_mutex EXCEPT !.waiters = Append(@, c)]
    /\ nextCommit' = nextCommit + 1
    /\ UNCHANGED <<syncs, executorLog, stateSyncQ, stateSyncLog, commitQ,
                   commitLog>>
    /\ UNCHANGED <<vars, worker, builder, more>>

\* sync_to is called: the caller waits for the mutex.
SyncToCall(c) ==
    /\ callers[c] = Idle
    /\ syncs < MaxSyncs
    /\ callers' = [callers EXCEPT ![c] = [Idle EXCEPT !.op = "sync_to",
                                                        !.pc = "waiting"]]
    /\ write_mutex' = [write_mutex EXCEPT !.waiters = Append(@, c)]
    /\ syncs' = syncs + 1
    /\ UNCHANGED <<nextCommit, executorLog, stateSyncQ, stateSyncLog, commitQ,
                   commitLog>>
    /\ UNCHANGED <<vars, worker, builder, more>>

\* let _guard = self.write_mutex.lock().await
Acquire(c) ==
    /\ callers[c].pc = "waiting"
    /\ MutexAvailable
    /\ NextWaiter = c
    /\ write_mutex' =
           [locked |-> TRUE,
            waiters |-> SelectSeq(write_mutex.waiters, LAMBDA w : w # c)]
    /\ callers' = [callers EXCEPT ![c].pc = "locked"]
    /\ UNCHANGED <<nextCommit, syncs, executorLog, stateSyncQ, stateSyncLog,
                   commitQ, commitLog>>
    /\ UNCHANGED <<vars, worker, builder, more>>

\* commit: data_manager.get_data(..).await? fails for a block.
CommitGetDataFails(c) ==
    /\ callers[c].op = "commit" /\ callers[c].pc = "locked"
    /\ ~callers[c].empty
    /\ Release(c)
    /\ UNCHANGED <<nextCommit, syncs, executorLog, stateSyncQ, stateSyncLog,
                   commitQ, commitLog>>
    /\ UNCHANGED <<vars, worker, builder, more>>

\* commit: executor.commit_blocks_ext, then the notification and the callback
\* are sent to async_state_sync_notifier.
CommitBlocks(c) ==
    /\ callers[c].op = "commit" /\ callers[c].pc = "locked"
    /\ Len(stateSyncQ) < NotifierChannelSize
    /\ executorLog' = Append(executorLog, callers[c].id)
    /\ stateSyncQ' = Append(stateSyncQ, callers[c].id)
    /\ callers' = [callers EXCEPT ![c].pc = "committed"]
    /\ UNCHANGED <<write_mutex, nextCommit, syncs, stateSyncLog, commitQ,
                   commitLog>>
    /\ UNCHANGED <<vars, worker, builder, more>>

\* commit: return if there was no block (skip_clean), else (latest_epoch,
\* latest_round, payloads) is sent to async_commit_notifier first.
CommitReturn(c) ==
    /\ callers[c].op = "commit" /\ callers[c].pc = "committed"
    /\ IF callers[c].empty
       THEN UNCHANGED commitQ
       ELSE /\ Len(commitQ) < NotifierChannelSize
            /\ commitQ' = Append(commitQ, [kind |-> "commit", id |-> callers[c].id])
    /\ Release(c)
    /\ UNCHANGED <<nextCommit, syncs, executorLog, stateSyncQ, stateSyncLog,
                   commitLog>>
    /\ UNCHANGED <<vars, worker, builder, more>>

\* sync_to: executor.finish(), then the target's (epoch, round) is sent to
\* async_commit_notifier.
SyncToNotify(c) ==
    /\ callers[c].op = "sync_to" /\ callers[c].pc = "locked"
    /\ Len(commitQ) < NotifierChannelSize
    /\ commitQ' = Append(commitQ, [kind |-> "sync_to", id |-> 0])
    /\ callers' = [callers EXCEPT ![c].pc = "syncing"]
    /\ UNCHANGED <<write_mutex, nextCommit, syncs, executorLog, stateSyncQ,
                   stateSyncLog, commitLog>>
    /\ UNCHANGED <<vars, worker, builder, more>>

\* sync_to: sync_to_target, executor.reset(), and the result is returned.
SyncToReturn(c) ==
    /\ callers[c].op = "sync_to" /\ callers[c].pc = "syncing"
    /\ Release(c)
    /\ UNCHANGED <<nextCommit, syncs, executorLog, stateSyncQ, stateSyncLog,
                   commitQ, commitLog>>
    /\ UNCHANGED <<vars, worker, builder, more>>

\* The task of async_state_sync_notifier: notify_new_commit, then callback().
StateSyncTask ==
    /\ stateSyncQ # <<>>
    /\ stateSyncQ' = Tail(stateSyncQ)
    /\ stateSyncLog' = Append(stateSyncLog, Head(stateSyncQ))
    /\ UNCHANGED <<callers, write_mutex, nextCommit, syncs, executorLog,
                   commitQ, commitLog>>
    /\ UNCHANGED <<vars, worker, builder, more>>

\* The task of async_commit_notifier: data_manager.notify_commit.
CommitNotifierTask ==
    /\ commitQ # <<>>
    /\ commitQ' = Tail(commitQ)
    /\ commitLog' = Append(commitLog, Head(commitQ))
    /\ UNCHANGED <<callers, write_mutex, nextCommit, syncs, executorLog,
                   stateSyncQ, stateSyncLog>>
    /\ UNCHANGED <<vars, worker, builder, more>>

\* ------------------------------------------- ExecutionProxy::commit: data
\* Rounds 1 .. MaxRound of a block.
MaxRound == 2

\* Blocks of one commit call.
MaxBlocks == 2

\* Payloads 1 .. NumPayloads; payload None is a block without payload.
NumPayloads == 2

\* ExecutedBlock: what commit reads of it.
Blocks == [epoch : 1..MaxEpoch, round : 1..MaxRound, payload : 0..NumPayloads]

BlockLists == UNION {[1..n -> Blocks] : n \in 0..MaxBlocks}

\* std::cmp::max
Max(a, b) == IF a >= b THEN a ELSE b

RECURSIVE LatestEpoch(_)
\* commit: latest_epoch = max(latest_epoch, block.epoch()) over the blocks.
LatestEpoch(blocks) ==
    IF blocks = <<>> THEN 0
    ELSE Max(LatestEpoch(SubSeq(blocks, 1, Len(blocks) - 1)),
             blocks[Len(blocks)].epoch)

RECURSIVE LatestRound(_)
\* commit: latest_round = max(latest_round, block.round()) over the blocks.
LatestRound(blocks) ==
    IF blocks = <<>> THEN 0
    ELSE Max(LatestRound(SubSeq(blocks, 1, Len(blocks) - 1)),
             blocks[Len(blocks)].round)

\* commit: payloads.push(..) for every block whose payload is_some().
PayloadsOf(blocks) ==
    LET with == SelectSeq(blocks, LAMBDA b : b.payload # None)
    IN  [i \in 1..Len(with) |-> with[i].payload]

\* One call of ExecutionProxy::commit as a whole: get_data fails for
\* block failAt (0: for none) and commit returns the error, or the blocks are
\* committed and, unless there is no block, (latest_epoch, latest_round,
\* payloads) is sent to async_commit_notifier.
Commit(blocks, failAt) ==
    /\ commit_result = "none"
    /\ commit_blocks' = blocks
    /\ data_manager' = <<>>
    /\ IF failAt # 0
       THEN commit_result' = "err" /\ commit_rx' = <<>>
       ELSE /\ commit_result' = "ok"
            /\ commit_rx' =
                   IF blocks = <<>> THEN <<>>
                   ELSE <<[epoch |-> LatestEpoch(blocks),
                           round |-> LatestRound(blocks),
                           payloads |-> PayloadsOf(blocks)]>>
    /\ UNCHANGED <<vars, worker, builder, proxy>>

\* The task of async_commit_notifier:
\* data_manager.notify_commit(LogicalTime::new(epoch, round), payloads).
NotifyCommit ==
    /\ commit_rx # <<>>
    /\ commit_rx' = Tail(commit_rx)
    /\ data_manager' = Append(data_manager, Head(commit_rx))
    /\ UNCHANGED <<commit_blocks, commit_result>>
    /\ UNCHANGED <<vars, worker, builder, proxy>>

\* -------------------------------------------------------- proposer election
NumProposers == 3                    \* validators of the epoch, at most
MaxContiguousRounds == 2             \* contiguous_rounds, at most
MaxHistory == 3                      \* use_history_from_previous_epoch_max_count, at most

\* get_ordered_account_addresses_iter: the addresses of a validator set, in order.
OrderedAddresses(S) ==
    CHOOSE l \in [1..Cardinality(S) -> S] :
        \A i, j \in 1..Cardinality(S) : i < j => l[i] < l[j]

ProposerLists == {OrderedAddresses(S) : S \in SUBSET (1..NumProposers)}

\* onchain_config.proposer_election_type(), with the fields the call reads. A
\* rotating election divides by contiguous_rounds, which is positive.
ElectionTypes ==
    {[type |-> t, contiguous_rounds |-> c, max_count |-> 0] :
        t \in {"RotatingProposer", "FixedProposer"}, c \in 1..MaxContiguousRounds}
    \cup {[type |-> "LeaderReputation", contiguous_rounds |-> 0, max_count |-> m] :
            m \in 0..MaxHistory}
    \cup {[type |-> "RoundProposer", contiguous_rounds |-> 0, max_count |-> 0]}

\* An election over no proposer is rejected: nothing is built.
Rejected ==
    [kind |-> "panic", proposers |-> <<>>, contiguous_rounds |-> 0,
     epoch_to_proposers |-> [k \in {} |-> <<>>]]

\* RotatingProposer::new(proposers, contiguous_rounds)
RotatingProposerNew(proposers, contiguous_rounds) ==
    IF proposers = <<>> THEN Rejected
    ELSE [kind |-> "RotatingProposer", proposers |-> proposers,
          contiguous_rounds |-> contiguous_rounds,
          epoch_to_proposers |-> [k \in {} |-> <<>>]]

\* choose_leader(proposers): a deterministic pick among the proposers.
ChooseLeader(proposers) ==
    CHOOSE p \in {proposers[i] : i \in 1..Len(proposers)} : TRUE

FixedProposers_All(proposers) == proposers

\* ProposerElectionType::FixedProposer: vec![choose_leader(proposers)]
FixedProposers(proposers) == <<ChooseLeader(proposers)>>

RoundProposerNew_Unchecked(proposers) ==
    [kind |-> "RoundProposer", proposers |-> proposers, contiguous_rounds |-> 0,
     epoch_to_proposers |-> [k \in {} |-> <<>>]]

\* ProposerElectionType::RoundProposer: the default proposer is
\* proposers.first().unwrap(), which panics when there is none.
RoundProposerNew(proposers) ==
    IF proposers = <<>> THEN Rejected
    ELSE [kind |-> "RoundProposer", proposers |-> <<proposers[1]>>,
          contiguous_rounds |-> 0, epoch_to_proposers |-> [k \in {} |-> <<>>]]

\* u64::saturating_sub
SaturatingSub(a, b) == IF a >= b THEN a - b ELSE 0

FirstEpochToConsider_NoFloor(e, max_count) == SaturatingSub(e, max_count)

\* first_epoch_to_consider
FirstEpochToConsider(e, max_count) == Max(1, SaturatingSub(e, max_count))

LedgerInfoCountOk_Unchecked(len, e, first) == TRUE

\* ensure!(proof.ledger_info_with_sigs.len() == epoch - (first_epoch_to_consider - 1))
LedgerInfoCountOk(len, e, first) == len = e - (first - 1)

\* The validator set storage holds for an earlier epoch: the full one.
StoredProposers == [i \in 1..NumProposers |-> i]

\* extract_epoch_to_proposers, when it succeeds: the current proposers for
\* the current epoch and, for each earlier epoch a returned ledger info
\* starts, the proposers that ledger info names.
ExtractEpochToProposers(len, e, proposers) ==
    [k \in {e} \cup (Max(1, e - len + 1) .. e) |->
        IF k = e THEN proposers ELSE StoredProposers]

\* epoch_to_proposers
EpochToProposers(e, proposers, first, fetchOk, fetchLen, extractOk) ==
    IF e > first /\ fetchOk /\ LedgerInfoCountOk(fetchLen, e, first) /\ extractOk
    THEN ExtractEpochToProposers(fetchLen, e, proposers)
    ELSE [k \in {e} |-> proposers]

\* LeaderReputation::new(epoch, epoch_to_proposers, ..) in its caching wrapper
LeaderReputationNew(proposers, epoch_to_proposers) ==
    IF proposers = <<>> THEN Rejected
    ELSE [kind |-> "LeaderReputation", proposers |-> proposers,
          contiguous_rounds |-> 0, epoch_to_proposers |-> epoch_to_proposers]

\* create_proposer_election(epoch_state, onchain_config): t is the election
\* type of the config, proposers and e come from the epoch state; fetchOk,
\* fetchLen and extractOk are what storage answers when it is asked.
CreateProposerElection(t, proposers, e, fetchOk, fetchLen, extractOk) ==
    /\ election_call = NoElectionCall
    /\ election_call' =
         [type |-> t.type, contiguous_rounds |-> t.contiguous_rounds,
          max_count |-> t.max_count, proposers |-> proposers, epoch |-> e,
          fetchOk |-> fetchOk, fetchLen |-> fetchLen, extractOk |-> extractOk]
    /\ ledger_info_requests' =
         IF t.type = "LeaderReputation" /\ e > FirstEpochToConsider(e, t.max_count)
         THEN <<[start_epoch |-> FirstEpochToConsider(e, t.max_count) - 1,
                 end_epoch |-> e]>>
         ELSE <<>>
    /\ proposer_election' =
         CASE t.type = "RotatingProposer" ->
                RotatingProposerNew(proposers, t.contiguous_rounds)
           [] t.type = "FixedProposer" ->
                IF proposers = <<>> THEN Rejected
                ELSE RotatingProposerNew(FixedProposers(proposers), t.contiguous_rounds)
           [] t.type = "LeaderReputation" ->
                LeaderReputationNew(proposers,
                    EpochToProposers(e, proposers, FirstEpochToConsider(e, t.max_count),
                                     fetchOk, fetchLen, extractOk))
           [] t.type = "RoundProposer" -> RoundProposerNew(proposers)
    /\ UNCHANGED leaders
    /\ UNCHANGED <<vars, worker, builder, proxy>>

\* RotatingProposer::get_valid_proposer(round)
GetValidProposer(round) ==
    /\ proposer_election.kind = "RotatingProposer"
    /\ round \notin DOMAIN leaders
    /\ leaders' =
         [r \in DOMAIN leaders \cup {round} |->
            IF r = round
            THEN proposer_election.proposers[
                   ((round \div proposer_election.contiguous_rounds)
                       % Len(proposer_election.proposers)) + 1]
            ELSE leaders[r]]
    /\ UNCHANGED <<election_call, ledger_info_requests, proposer_election>>
    /\ UNCHANGED <<vars, worker, builder, proxy>>

\* ----------------------------------------------------------- metrics ingest
NumBackends == 3                     \* configured metrics clients, at most
NumBodies == 2                       \* distinct metrics bodies

\* What a backend answers to a post: no response at all, or a response with
\* one of these HTTP status codes.
NoResponse == 0
Answers == {NoResponse, 200, 204, 400, 503}

\* StatusCode::is_success
IsSuccess(status) == status \in 200..299

\* The Result the handler maps the answer of a client to is Ok.
Accepted(answer) == answer # NoResponse /\ IsSuccess(answer)

AllFailed_Any(posts) == \E c \in DOMAIN posts : ~Accepted(posts[c].answer)

\* results.fold(true, |acc, r| acc && r.is_err())
AllFailed(posts) == \A c \in DOMAIN posts : ~Accepted(posts[c].answer)

\* handle_metrics_ingest is called: context.metrics_client() holds clients.
HandleMetricsIngest(clients, body) ==
    /\ ingest_call = NoIngestCall /\ ingest_reply = "none"
    /\ ingest_call' = [clients |-> clients, body |-> body]
    /\ UNCHANGED <<ingest_posts, ingest_reply>>
    /\ UNCHANGED <<vars, worker, builder, proxy>>

\* client.post_prometheus_metrics(metrics_body.clone(), ..), one of the
\* futures join_all awaits, and the answer it resolves to.
PostPrometheusMetrics(c, answer) ==
    /\ ingest_call.body # 0 /\ ingest_reply = "none"
    /\ c \in ingest_call.clients \ DOMAIN ingest_posts
    /\ ingest_posts' =
         [x \in DOMAIN ingest_posts \cup {c} |->
            IF x = c THEN [body |-> ingest_call.body, answer |-> answer]
            ELSE ingest_posts[x]]
    /\ UNCHANGED <<ingest_call, ingest_reply>>
    /\ UNCHANGED <<vars, worker, builder, proxy>>

\* handle_metrics_ingest returns, once join_all has every answer.
IngestReply ==
    /\ ingest_call.body # 0 /\ ingest_reply = "none"
    /\ DOMAIN ingest_posts = ingest_call.clients
    /\ ingest_reply' = IF AllFailed(ingest_posts) THEN "IngestionError" ELSE "Created"
    /\ UNCHANGED <<ingest_call, ingest_posts>>
    /\ UNCHANGED <<vars, worker, builder, proxy>>

\* ----------------------------------------------------------- round timeouts
MaxTimeouts == 1                     \* round timeouts pending, at most

\* The RoundState that create_round_state made for the round manager of
\* epoch e times out in a round: it sends the round, and nothing else, on the
\* timeout_sender all epochs share. scheduled_in is kept for the claims only.
RoundStateTimeout(e, round) ==
    /\ e \in liveRM /\ rmMode = "round"
    /\ Len(timeout_rx) < MaxTimeouts
    /\ timeout_rx' = Append(timeout_rx, [round |-> round, scheduled_in |-> e])
    /\ UNCHANGED <<forwarded, vars, worker, builder, proxy, beside_timing>>

\* start: the select loop takes a round from round_timeout_sender_rx and
\* calls process_local_timeout(round).
ReceiveLocalTimeout ==
    /\ timeout_rx # <<>>
    /\ ProcessLocalTimeout
    /\ timeout_rx' = Tail(timeout_rx)
    /\ forwarded' =
         IF last'.target = "rm"
         THEN [round |-> Head(timeout_rx).round,
               scheduled_in |-> Head(timeout_rx).scheduled_in,
               to |-> round_manager_tx]
         ELSE forwarded
    /\ UNCHANGED <<worker, builder, proxy, beside_timing>>

\* ------------------------------------------- the QuorumStore worker's sends
NumListeners == 2                    \* network listeners of the worker

\* handle_end_batch and start, EndBatch: the sends, each awaited before the next.
EndBatchSends_BroadcastFirst == <<"Broadcast", "InitProof", "Persist">>

EndBatchSends == <<"InitProof", "Broadcast", "Persist">>

\* start, Shutdown: the sub-actors in the order they are stopped.
SubActors ==
    <<[kind |-> "batch_store", idx |-> 0], [kind |-> "proof_builder", idx |-> 0]>>
    \o [i \in 1..NumListeners |-> [kind |-> "listener", idx |-> i]]

MayContactNext_NoWait(a, k) == TRUE

\* start, Shutdown: the acknowledgment of a sub-actor is awaited before the
\* next one is sent its Shutdown.
MayContactNext(a, k) == Len(a) = Len(k)

\* The wrapper numbers its batches one after the other: the batch id of the
\* commands it sends once the batches before have ended.
BatchInHand == Cardinality(broadcasted) + 1

\* start takes AppendToBatch: a non-terminal fragment is broadcast.
StepAppendToBatch(b) ==
    /\ wPc = "recv"
    /\ b = BatchInHand
    /\ appended' = appended \cup {b}
    /\ UNCHANGED <<wPc, wBatch, wSent, pb_channel, broadcasted, persisted, wAsked, wAcked>>
    /\ UNCHANGED <<vars, worker, builder, proxy, beside_stepping>>

\* start takes EndBatch.
StepEndBatch(b) ==
    /\ wPc = "recv"
    /\ b = BatchInHand
    /\ wPc' = "end_batch"
    /\ wBatch' = b
    /\ wSent' = 0
    /\ UNCHANGED <<appended, pb_channel, broadcasted, persisted, wAsked, wAcked>>
    /\ UNCHANGED <<vars, worker, builder, proxy, beside_stepping>>

\* The next send of the EndBatch in hand; after the last one fragment_id is
\* reset and the loop goes round.
StepSend ==
    /\ wPc = "end_batch"
    /\ LET send == EndBatchSends[wSent + 1]
       IN  /\ pb_channel' = IF send = "InitProof"
                            THEN Append(pb_channel, [kind |-> "InitProof",
                                                     batch_id |-> wBatch, from |-> "worker"])
                            ELSE pb_channel
           /\ broadcasted' = IF send = "Broadcast"
                             THEN broadcasted \cup {wBatch} ELSE broadcasted
           /\ persisted' = IF send = "Persist" THEN persisted \cup {wBatch} ELSE persisted
    /\ wSent' = IF wSent + 1 = Len(EndBatchSends) THEN 0 ELSE wSent + 1
    /\ wPc' = IF wSent + 1 = Len(EndBatchSends) THEN "recv" ELSE "end_batch"
    /\ wBatch' = IF wSent + 1 = Len(EndBatchSends) THEN None ELSE wBatch
    /\ UNCHANGED <<appended, wAsked, wAcked>>
    /\ UNCHANGED <<vars, worker, builder, proxy, beside_stepping>>

\* A peer that got the terminal fragment, or the local batch store that got
\* the Persist request, signs the digest of the batch: the SignedDigest is
\* enqueued on proof_builder_tx by a network listener or by the batch store.
SignedDigestArrives(b, from) ==
    /\ IF from = "peer" THEN b \in broadcasted ELSE b \in persisted
    /\ from = "batch_store" => wAcked = <<>>
    /\ \A i \in 1..Len(pb_channel) :
          ~(pb_channel[i].kind = "SignedDigest" /\ pb_channel[i].batch_id = b
            /\ pb_channel[i].from = from)
    /\ pb_channel' = Append(pb_channel, [kind |-> "SignedDigest", batch_id |-> b,
                                         from |-> from])
    /\ UNCHANGED <<wPc, wBatch, wSent, appended, broadcasted, persisted, wAsked, wAcked>>
    /\ UNCHANGED <<vars, worker, builder, proxy, beside_stepping>>

\* start takes Shutdown.
StepShutdown ==
    /\ wPc = "recv"
    /\ wPc' = "shutdown"
    /\ UNCHANGED <<wBatch, wSent, appended, pb_channel, broadcasted, persisted,
                   wAsked, wAcked>>
    /\ UNCHANGED <<vars, worker, builder, proxy, beside_stepping>>

\* start, Shutdown: the next sub-actor is sent its Shutdown; the proof
\* builder gets it on proof_builder_tx. A send that fails panics.
StepStop(ok) ==
    /\ wPc = "shutdown"
    /\ Len(wAsked) < Len(SubActors)
    /\ MayContactNext(wAsked, wAcked)
    /\ IF ok
       THEN /\ wAsked' = Append(wAsked, SubActors[Len(wAsked) + 1])
            /\ pb_channel' = IF SubActors[Len(wAsked) + 1].kind = "proof_builder"
                             THEN Append(pb_channel, [kind |-> "Shutdown", batch_id |-> None,
                                                      from |-> "worker"])
                             ELSE pb_channel
            /\ UNCHANGED wPc
       ELSE /\ wPc' = "panicked"
            /\ UNCHANGED <<wAsked, pb_channel>>
    /\ UNCHANGED <<wBatch, wSent, appended, broadcasted, persisted, wAcked>>
    /\ UNCHANGED <<vars, worker, builder, proxy, beside_stepping>>

\* start, Shutdown: the await of the acknowledgment returns; a dropped
\* acknowledgment sender panics in expect.
StepAwaitAck(ok) ==
    /\ wPc = "shutdown"
    /\ Len(wAcked) < Len(wAsked)
    /\ IF ok
       THEN wAcked' = Append(wAcked, wAsked[Len(wAcked) + 1]) /\ UNCHANGED wPc
       ELSE wPc' = "panicked" /\ UNCHANGED wAcked
    /\ UNCHANGED <<wBatch, wSent, appended, pb_channel, broadcasted, persisted, wAsked>>
    /\ UNCHANGED <<vars, worker, builder, proxy, beside_stepping>>

\* start, Shutdown: ack_tx.send(()) and break.
StepAck ==
    /\ wPc = "shutdown"
    /\ Len(wAsked) = Len(SubActors)
    /\ MayContactNext(wAsked, wAcked)
    /\ wPc' = "stopped"
    /\ UNCHANGED <<wBatch, wSent, appended, pb_channel, broadcasted, persisted,
                   wAsked, wAcked>>
    /\ UNCHANGED <<vars, worker, builder, proxy, beside_stepping>>

\* ------------------------------------------ the ExecutionProxy, call by call
\* What a call or a notifier task did: for which call, whether it succeeded
\* and the (epoch, round, payloads) of a commit notification.
Event(ev, id, ok, e, r, payloads) ==
    [ev |-> ev, id |-> id, ok |-> ok, epoch |-> e, round |-> r, payloads |-> payloads]

Did(ev, id, ok) == Event(ev, id, ok, 0, 0, <<>>)

\* A message of async_commit_notifier: (epoch, round, payloads).
CommitType(id, e, r, payloads) ==
    [id |-> id, epoch |-> e, round |-> r, payloads |-> payloads]

\* The block lists of the commit calls: none, one block with a payload, or
\* that block with one of a later round that has no payload.
CallBlocks ==
    {<<>>,
     <<[epoch |-> 1, round |-> 1, payload |-> 1]>>,
     <<[epoch |-> 1, round |-> 1, payload |-> 1],
       [epoch |-> 1, round |-> MaxRound, payload |-> None]>>}

\* A call as it is made.
Call(op, id, e, r, blocks, failAt) ==
    [op |-> op, id |-> id, epoch |-> e, round |-> r, blocks |-> blocks,
     failAt |-> failAt, syncOk |-> TRUE, result |-> "none"]

\* What was done for a call is added to what was done for it before.
Logged(x) == [scTrace EXCEPT ![x.id] = Append(@, x)]

\* The targets of the sync_to calls.
SyncTargets == {[epoch |-> 1, round |-> 1], [epoch |-> MaxEpoch, round |-> MaxRound]}

\* The call in hand.
CallInHand == scCalls[Len(scCalls)]

\* The call in hand returns res.
Returned(res) == [scCalls EXCEPT ![Len(scCalls)].result = res]

\* Variant: the commit notification is sent once state sync has returned.
SyncToSteps_NotifyLast == <<"finish", "sync_to_target", "reset", "notify">>

\* sync_to: what it does under the write lock, in order.
SyncToSteps == <<"finish", "notify", "sync_to_target", "reset">>

\* Variant: the callback is left out when state sync could not be notified.
InvokesCallback_OnSuccess(ok) == ok

\* The task of async_state_sync_notifier: callback() follows
\* notify_new_commit whatever it returned.
InvokesCallback(ok) == TRUE

\* sync_to(target) is called and has the write lock.
StepSyncToCall(e, r) ==
    /\ scPc = "idle"
    /\ Len(scCalls) < MaxCalls
    /\ scCalls' = Append(scCalls, Call("sync_to", Len(scCalls) + 1, e, r, <<>>, 0))
    /\ scPc' = "sync_to"
    /\ scDone' = 0
    /\ UNCHANGED <<scTrace, sync_rx, notify_rx>>
    /\ UNCHANGED <<vars, worker, builder, proxy, beside_calling>>

\* sync_to: its next step. executor.finish() and the send do not fail;
\* sync_to_target may fail and sync_to goes on; a failed executor.reset()
\* returns its error at once; after the last step the result of
\* sync_to_target is returned.
StepSyncTo(ok) ==
    /\ scPc = "sync_to"
    /\ LET step == SyncToSteps[scDone + 1]
           last_step == scDone + 1 = Len(SyncToSteps)
           syncOk == IF step = "sync_to_target" THEN ok ELSE CallInHand.syncOk
       IN  /\ step \in {"finish", "notify"} => ok
           /\ step = "notify" => Len(notify_rx) < NotifierChannelSize
           /\ scTrace' = Logged(IF step = "notify"
                                THEN Event(step, CallInHand.id, ok, CallInHand.epoch,
                                           CallInHand.round, <<>>)
                                ELSE Did(step, CallInHand.id, ok))
           /\ notify_rx' = IF step = "notify"
                           THEN Append(notify_rx, CommitType(CallInHand.id, CallInHand.epoch,
                                                             CallInHand.round, <<>>))
                           ELSE notify_rx
           /\ IF step = "reset" /\ ~ok
              THEN /\ scCalls' = Returned("err")
                   /\ scPc' = "idle"
                   /\ scDone' = 0
              ELSE IF last_step
              THEN /\ scCalls' = Returned(IF syncOk THEN "ok" ELSE "err")
                   /\ scPc' = "idle"
                   /\ scDone' = 0
              ELSE /\ scCalls' = [scCalls EXCEPT ![Len(scCalls)].syncOk = syncOk]
                   /\ scDone' = scDone + 1
                   /\ UNCHANGED scPc
    /\ UNCHANGED sync_rx
    /\ UNCHANGED <<vars, worker, builder, proxy, beside_calling>>

\* commit(blocks, ..) is called and has the write lock; get_data fails for
\* block failAt (0: for none).
StepCommitCall(blocks, failAt) ==
    /\ scPc = "idle"
    /\ Len(scCalls) < MaxCalls
    /\ failAt \in 0..Len(blocks)
    /\ scCalls' = Append(scCalls, Call("commit", Len(scCalls) + 1, LatestEpoch(blocks),
                                       LatestRound(blocks), blocks, failAt))
    /\ scPc' = "get_data"
    /\ UNCHANGED <<scDone, scTrace, sync_rx, notify_rx>>
    /\ UNCHANGED <<vars, worker, builder, proxy, beside_calling>>

\* commit: the loop over the blocks; data_manager.get_data(..).await? returns
\* the error of the block it fails for.
StepGetData ==
    /\ scPc = "get_data"
    /\ IF CallInHand.failAt # 0
       THEN /\ scTrace' = Logged(Did("get_data", CallInHand.id, FALSE))
            /\ scCalls' = Returned("err")
            /\ scPc' = "idle"
       ELSE /\ scTrace' = IF CallInHand.blocks = <<>> THEN scTrace
                          ELSE Logged(Did("get_data", CallInHand.id, TRUE))
            /\ scPc' = "commit_blocks"
            /\ UNCHANGED scCalls
    /\ UNCHANGED <<scDone, sync_rx, notify_rx>>
    /\ UNCHANGED <<vars, worker, builder, proxy, beside_calling>>

\* commit: executor.commit_blocks_ext(..).expect(..) in spawn_blocking.
StepCommitBlocks(ok) ==
    /\ scPc = "commit_blocks"
    /\ scTrace' = Logged(Did("commit_blocks", CallInHand.id, ok))
    /\ scPc' = IF ok THEN "send_callback" ELSE "panicked"
    /\ UNCHANGED <<scDone, scCalls, sync_rx, notify_rx>>
    /\ UNCHANGED <<vars, worker, builder, proxy, beside_calling>>

\* commit: (wrapped_callback, txns, reconfig_events) is sent to
\* async_state_sync_notifier.
StepSendCallback ==
    /\ scPc = "send_callback"
    /\ Len(sync_rx) < NotifierChannelSize
    /\ sync_rx' = Append(sync_rx, CallInHand.id)
    /\ scTrace' = Logged(Did("send_callback", CallInHand.id, TRUE))
    /\ scPc' = "send_commit"
    /\ UNCHANGED <<scDone, scCalls, notify_rx>>
    /\ UNCHANGED <<vars, worker, builder, proxy, beside_calling>>

\* commit: Ok(()) at once if there was no block (skip_clean), else after
\* (latest_epoch, latest_round, payloads) is sent to async_commit_notifier.
StepCommitReturn ==
    /\ scPc = "send_commit"
    /\ IF CallInHand.blocks = <<>>
       THEN UNCHANGED <<notify_rx, scTrace>>
       ELSE /\ Len(notify_rx) < NotifierChannelSize
            /\ notify_rx' = Append(notify_rx,
                                   CommitType(CallInHand.id, CallInHand.epoch, CallInHand.round,
                                              PayloadsOf(CallInHand.blocks)))
            /\ scTrace' = Logged(Event("notify", CallInHand.id, TRUE, CallInHand.epoch,
                                       CallInHand.round, PayloadsOf(CallInHand.blocks)))
    /\ scCalls' = Returned("ok")
    /\ scPc' = "idle"
    /\ UNCHANGED <<scDone, sync_rx>>
    /\ UNCHANGED <<vars, worker, builder, proxy, beside_calling>>

\* The task of async_state_sync_notifier takes a notification:
\* notify_new_commit, whose error is logged, then callback().
StateSyncNotifier(ok) ==
    /\ sync_rx # <<>>
    /\ sync_rx' = Tail(sync_rx)
    /\ scTrace' = [scTrace EXCEPT ![Head(sync_rx)] =
                       @ \o <<Did("notify_new_commit", Head(sync_rx), ok)>>
                         \o (IF InvokesCallback(ok)
                             THEN <<Did("callback", Head(sync_rx), TRUE)>> ELSE <<>>)]
    /\ UNCHANGED <<scPc, scDone, scCalls, notify_rx>>
    /\ UNCHANGED <<vars, worker, builder, proxy, beside_calling>>

\* The task of async_commit_notifier takes a notification:
\* data_manager.notify_commit(LogicalTime::new(epoch, round), payloads).
CommitNotifier ==
    /\ notify_rx # <<>>
    /\ notify_rx' = Tail(notify_rx)
    /\ scTrace' = Logged(Event("notify_commit", Head(notify_rx).id, TRUE,
                               Head(notify_rx).epoch, Head(notify_rx).round,
                               Head(notify_rx).payloads))
    /\ UNCHANGED <<scPc, scDone, scCalls, sync_rx>>
    /\ UNCHANGED <<vars, worker, builder, proxy, beside_calling>>

\* ------------------------------------------------------------ specification
\* EpochManager::start: the first reconfiguration, then the select loop; the
\* per-epoch actors run beside it.
Next ==
    \/ AwaitReconfigNotification /\ UNCHANGED subsystems
    \/ \E m \in EventMsgs : ProcessEventMsg(m) /\ UNCHANGED subsystems
    \/ \E m \in ProofMsgs : ProcessEpochChangeProof(m) /\ UNCHANGED subsystems
    \/ \E m \in RetrievalMsgs : ProcessEpochRetrievalRequest(m) /\ UNCHANGED subsystems
    \/ \E m \in OtherMsgs : ProcessUnexpected(m) /\ UNCHANGED subsystems
    \/ ProcessLocalTimeout /\ UNCHANGED subsystems
    \/ \E p \in Senders : ProcessBlockRetrieval(p) /\ UNCHANGED subsystems
    \/ NextIteration /\ UNCHANGED subsystems
    \/ ShutdownRoundManager /\ UNCHANGED subsystems
    \/ AwaitRoundManagerAck /\ UNCHANGED subsystems
    \/ ShutdownWrapper /\ UNCHANGED subsystems
    \/ AwaitWrapperAck /\ UNCHANGED subsystems
    \/ ShutdownBufferManager /\ UNCHANGED subsystems
    \/ AwaitBufferManagerAck /\ UNCHANGED subsystems
    \/ DropBlockRetrieval /\ UNCHANGED subsystems
    \/ SyncTo /\ UNCHANGED subsystems
    \/ RoundManagerClose /\ UNCHANGED subsystems
    \/ WrapperStop /\ UNCHANGED subsystems
    \/ BufferManagerReset /\ UNCHANGED subsystems
    \/ BlockRetrievalTaskStops /\ UNCHANGED subsystems
    \/ BlockRetrievalRecv /\ UNCHANGED subsystems
    \/ RoundManagerRecv /\ UNCHANGED subsystems
    \/ BufferManagerRecv /\ UNCHANGED subsystems
    \/ WrapperRecv /\ UNCHANGED subsystems
    \/ ListenerRecv /\ UNCHANGED subsystems

\* The epoch manager and its per-epoch actors; no quorum store worker runs.
Spec == Init /\ [][Next]_<<vars, subsystems>>

\* The epoch manager when every awaited future resolves: a per-epoch actor
\* that was sent its close, stop or reset signal acknowledges it, sync_to
\* returns and the reconfiguration notification arrives, so the task that
\* awaits them is polled again and takes its next step.
FairSpec ==
    /\ Spec
    /\ WF_<<vars, subsystems>>(ShutdownRoundManager /\ UNCHANGED subsystems)
    /\ WF_<<vars, subsystems>>(AwaitRoundManagerAck /\ UNCHANGED subsystems)
    /\ WF_<<vars, subsystems>>(ShutdownWrapper /\ UNCHANGED subsystems)
    /\ WF_<<vars, subsystems>>(AwaitWrapperAck /\ UNCHANGED subsystems)
    /\ WF_<<vars, subsystems>>(ShutdownBufferManager /\ UNCHANGED subsystems)
    /\ WF_<<vars, subsystems>>(AwaitBufferManagerAck /\ UNCHANGED subsystems)
    /\ WF_<<vars, subsystems>>(DropBlockRetrieval /\ UNCHANGED subsystems)
    /\ WF_<<vars, subsystems>>(SyncTo /\ UNCHANGED subsystems)
    /\ WF_<<vars, subsystems>>(AwaitReconfigNotification /\ UNCHANGED subsystems)
    /\ WF_<<vars, subsystems>>(RoundManagerClose /\ UNCHANGED subsystems)
    /\ WF_<<vars, subsystems>>(WrapperStop /\ UNCHANGED subsystems)
    /\ WF_<<vars, subsystems>>(BufferManagerReset /\ UNCHANGED subsystems)

\* The commands a quorum store wrapper may send to the worker.
NextQS ==
    \/ \E p \in Payloads, b \in BatchIds : AppendToBatch(p, b)
    \/ \E p \in Payloads, b \in BatchIds, e \in Expirations : EndBatch(p, b, e)
    \/ WorkerShutdown

\* The quorum store worker of one epoch, under any sequence of commands.
SpecQS == InitQS /\ [][NextQS]_<<vars, subsystems>>

\* The commands and the timeouts of the proof builder.
NextPB ==
    \/ \E b \in BatchIds : InitProof(b)
    \/ \E a \in Signers, b \in BatchIds, valid \in BOOLEAN : AppendSignature(a, b, valid)
    \/ \E b \in BatchIds : ProofTimeout(b)
    \/ ProofBuilderShutdown

\* The proof builder of one epoch.
SpecPB == InitPB /\ [][NextPB]_<<vars, subsystems>>

\* The proof builder with its watchdogs: an armed timer fires in the end
\* unless the builder is stopped.
FairSpecPB ==
    /\ SpecPB
    /\ \A b \in BatchIds : WF_<<vars, subsystems>>(ProofTimeout(b))

\* The calls of concurrent tasks on one ExecutionProxy and its two notifier
\* tasks.
NextEP ==
    \/ \E c \in Callers : ComputeCall(c)
    \/ \E c \in Callers : ComputeReturn(c)
    \/ \E c \in Callers, empty \in BOOLEAN : CommitCall(c, empty)
    \/ \E c \in Callers : SyncToCall(c)
    \/ \E c \in Callers : Acquire(c)
    \/ \E c \in Callers : CommitGetDataFails(c)
    \/ \E c \in Callers : CommitBlocks(c)
    \/ \E c \in Callers : CommitReturn(c)
    \/ \E c \in Callers : SyncToNotify(c)
    \/ \E c \in Callers : SyncToReturn(c)
    \/ StateSyncTask
    \/ CommitNotifierTask

\* One ExecutionProxy under any interleaving of its callers.
SpecEP == InitEP /\ [][NextEP]_<<vars, subsystems>>

\* One commit call with any list of blocks, and the notifier task.
NextCM ==
    \/ /\ commit_result = "none"
       /\ \E blocks \in BlockLists, failAt \in 0..MaxBlocks :
            failAt <= Len(blocks) /\ Commit(blocks, failAt)
       /\ UNCHANGED beside_committing
    \/ NotifyCommit /\ UNCHANGED beside_committing

\* The data a commit hands to the data manager.
SpecCM == InitEP /\ [][NextCM]_<<vars, subsystems>>

NextPE ==
    \/ /\ election_call = NoElectionCall
       /\ \E t \in ElectionTypes, proposers \in ProposerLists, e \in 0..MaxEpoch,
            fetchOk \in BOOLEAN, fetchLen \in 0..(MaxEpoch + 1), extractOk \in BOOLEAN :
            CreateProposerElection(t, proposers, e, fetchOk, fetchLen, extractOk)
       /\ UNCHANGED beside_electing
    \/ (\E round \in 0..MaxRound : GetValidProposer(round)) /\ UNCHANGED beside_electing

\* The election create_proposer_election builds, and the leaders it gives.
SpecPE == InitEP /\ [][NextPE]_<<vars, subsystems>>

NextMI ==
    \/ /\ ingest_call = NoIngestCall
       /\ \E clients \in SUBSET (1..NumBackends), body \in 1..NumBodies :
            HandleMetricsIngest(clients, body)
       /\ UNCHANGED beside_ingesting
    \/ /\ \E c \in 1..NumBackends, answer \in Answers : PostPrometheusMetrics(c, answer)
       /\ UNCHANGED beside_ingesting
    \/ IngestReply /\ UNCHANGED beside_ingesting

\* One metrics ingest request of the telemetry service.
SpecMI == InitEP /\ [][NextMI]_<<vars, subsystems>>

NextQW ==
    \/ \E b \in BatchIds : StepAppendToBatch(b)
    \/ \E b \in BatchIds : StepEndBatch(b)
    \/ StepSend
    \/ \E b \in BatchIds, from \in {"peer", "batch_store"} : SignedDigestArrives(b, from)
    \/ StepShutdown
    \/ \E ok \in BOOLEAN : StepStop(ok)
    \/ \E ok \in BOOLEAN : StepAwaitAck(ok)
    \/ StepAck

\* The quorum store worker of one epoch, send by send.
SpecQW == InitQS /\ [][NextQW]_<<vars, subsystems>>

\* The calls of one ExecutionProxy, step by step, and its notifier tasks.
NextSC ==
    \/ \E t \in SyncTargets : StepSyncToCall(t.epoch, t.round)
    \/ \E ok \in BOOLEAN : StepSyncTo(ok)
    \/ \E blocks \in CallBlocks, failAt \in 0..MaxBlocks : StepCommitCall(blocks, failAt)
    \/ StepGetData
    \/ \E ok \in BOOLEAN : StepCommitBlocks(ok)
    \/ StepSendCallback
    \/ StepCommitReturn
    \/ \E ok \in BOOLEAN : StateSyncNotifier(ok)
    \/ CommitNotifier

\* One ExecutionProxy, call by call.
SpecSC == InitEP /\ [][NextSC]_<<vars, subsystems>>

NextLT ==
    \/ AwaitReconfigNotification /\ UNCHANGED subsystems
    \/ \E m \in ProofMsgs : ProcessEpochChangeProof(m) /\ UNCHANGED subsystems
    \/ \E e \in Epochs, round \in 1..MaxRound : RoundStateTimeout(e, round)
    \/ ReceiveLocalTimeout
    \/ NextIteration /\ UNCHANGED subsystems
    \/ ShutdownRoundManager /\ UNCHANGED subsystems
    \/ AwaitRoundManagerAck /\ UNCHANGED subsystems
    \/ ShutdownWrapper /\ UNCHANGED subsystems
    \/ AwaitWrapperAck /\ UNCHANGED subsystems
    \/ ShutdownBufferManager /\ UNCHANGED subsystems
    \/ AwaitBufferManagerAck /\ UNCHANGED subsystems
    \/ DropBlockRetrieval /\ UNCHANGED subsystems
    \/ SyncTo /\ UNCHANGED subsystems
    \/ RoundManagerClose /\ UNCHANGED subsystems
    \/ WrapperStop /\ UNCHANGED subsystems
    \/ BufferManagerReset /\ UNCHANGED subsystems
    \/ BlockRetrievalTaskStops /\ UNCHANGED subsystems

\* The epoch manager with the round timeouts of its round managers and the
\* epoch changes; the other inbound messages are left out.
SpecLT == Init /\ [][NextLT]_<<vars, subsystems>>

\* ------------------------------------------------------------------ claims
\* A step of the select loop that handled a message of one of `kinds`.
Handled(kinds) ==
    /\ last = NoLast
    /\ last'.res \in {"ok", "err", "panic", "shutdown"}
    /\ last'.msg.kind \in kinds

\* The handles shutdown_current_processor takes or clears.
HandlesCleared ==
    /\ round_manager_tx = None /\ round_manager_close_tx = None
    /\ buffer_manager_msg_tx = None /\ buffer_manager_reset_tx = None
    /\ block_retrieval_tx = None /\ wrapper_quorum_store_tx = None

\* C1: at any time at most one round manager (or recovery manager), at most
\* one quorum-store wrapper and at most one buffer manager are live, and a
\* live one belongs to the current epoch: the actors of an epoch have
\* stopped and acknowledged before an actor of the next epoch is spawned.
C1_OneLiveActorSet ==
    \A live \in {liveRM, liveWrapper, liveBM} :
        /\ Cardinality(live) <= 1
        /\ live \subseteq {epoch}

\* Shutdown of an epoch that ran all three actors has completed: each has
\* acknowledged and none is live.
C1_Witness ==
    /\ pc = "reconfig"
    /\ {"rm_ack", "wrapper_ack", "bm_ack"} \subseteq
           { shutLog[i] : i \in DOMAIN shutLog }
    /\ liveRM = {} /\ liveWrapper = {} /\ liveBM = {}

\* The steps of shutdown_current_processor, in the order of the code.
ShutdownOrder ==
    <<"rm_close", "rm_ack", "wrapper_stop", "wrapper_ack",
      "bm_clear", "bm_reset_stop", "bm_ack", "brt_drop", "sync_ok", "sync_failed">>

Rank(step) == CHOOSE i \in DOMAIN ShutdownOrder : ShutdownOrder[i] = step

AckOf(step) ==
    CASE step = "rm_close" -> "rm_ack"
      [] step = "wrapper_stop" -> "wrapper_ack"
      [] step = "bm_reset_stop" -> "bm_ack"
      [] OTHER -> "none"

\* The steps logged so far are in the order of ShutdownOrder, and a signal
\* is followed by nothing but its acknowledgment.
OrderedLog(log) ==
    /\ \A i \in DOMAIN log : \A j \in DOMAIN log :
          i < j => Rank(log[i]) < Rank(log[j])
    /\ \A i \in DOMAIN log :
          (AckOf(log[i]) # "none" /\ i < Len(log)) => log[i + 1] = AckOf(log[i])

\* C2: shutdown_current_processor performs (a) close signal to the round
\* manager and its ack, (b) stop signal to the wrapper and its ack, (c)
\* buffer-manager message sender cleared, ResetRequest {stop: true} sent and
\* acked, (d) block-retrieval sender dropped, strictly in this order, each
\* ack received before the next step; a step whose actor is not installed
\* sends no signal and the others keep their order.
C2_ShutdownOrder ==
    [][ /\ OrderedLog(shutLog')
        /\ (pc = "sd_rm" /\ pc' # pc) =>
              IF round_manager_close_tx = None
              THEN closeReq' = closeReq /\ shutLog' = shutLog /\ pc' = "sd_wrapper"
              ELSE closeReq' = closeReq \cup {<<"rm", round_manager_close_tx>>}
        /\ (pc = "sd_wrapper" /\ pc' # pc) =>
              IF wrapper_quorum_store_tx = None
              THEN closeReq' = closeReq /\ shutLog' = shutLog /\ pc' = "sd_bm"
              ELSE closeReq' = closeReq \cup {<<"wrapper", wrapper_quorum_store_tx>>}
        /\ (pc = "sd_bm" /\ pc' # pc) =>
              /\ buffer_manager_msg_tx' = None
              /\ IF buffer_manager_reset_tx = None
                 THEN closeReq' = closeReq /\ pc' = "sd_brt"
                 ELSE closeReq' = closeReq \cup {<<"bm", buffer_manager_reset_tx>>}
        /\ (pc = "sd_brt" /\ pc' # pc) => block_retrieval_tx' = None /\ pc' = "sync"
        /\ (pc = "sd_rm_ack" /\ pc' # pc) => "rm" \in acked
        /\ (pc = "sd_wrapper_ack" /\ pc' # pc) => "wrapper" \in acked
        /\ (pc = "sd_bm_ack" /\ pc' # pc) => "bm" \in acked
      ]_vars

\* A shutdown that went through every step has returned.
C2_Witness ==
    /\ pc = "sync"
    /\ shutLog = SubSeq(ShutdownOrder, 1, 8)

\* C3: sync_to is called only once shutdown_current_processor has completed
\* (every handle cleared, every acknowledged actor stopped); the epoch state
\* and the actors of a new epoch are installed only after sync_to succeeded
\* and the reconfiguration notification arrived; a failed sync_to panics and
\* nothing is installed afterwards.
C3_SyncThenInstall ==
    [][ /\ pc' \in {"sync", "reconfig"} =>
              (HandlesCleared /\ liveRM = {} /\ liveWrapper = {} /\ liveBM = {}
               /\ closeReq = {})'
        /\ (epoch_state' # epoch_state \/ round_manager_tx' \notin {None, round_manager_tx}) =>
              /\ pc \in {"init", "reconfig"}
              /\ pc = "reconfig" =>
                    (shutLog # <<>> /\ shutLog[Len(shutLog)] = "sync_ok")
              /\ pc' = "idle"
        /\ (pc = "sync" /\ pc' = "reconfig") => shutLog'[Len(shutLog')] = "sync_ok"
        /\ (shutLog' # <<>> /\ shutLog'[Len(shutLog')] = "sync_failed") =>
              (pc = "panicked" /\ HandlesCleared /\ liveRM = {} /\ liveWrapper = {}
               /\ liveBM = {})'
        /\ pc = "panicked" =>
              /\ pc' = "panicked"
              /\ UNCHANGED <<epoch_state, handles>>
              /\ \A i \in DOMAIN actors : actors'[i] \subseteq actors[i]
      ]_vars

\* sync_to failed after a complete shutdown: the epoch manager has panicked.
C3_Witness ==
    /\ pc = "panicked"
    /\ Len(shutLog) > 1
    /\ shutLog[Len(shutLog)] = "sync_failed"
    /\ "rm_ack" \in { shutLog[i] : i \in DOMAIN shutLog }

\* Every pending entry of the channels fed from the network.
NetworkEntries ==
    UNION ({ { rmChan[k][i] : i \in DOMAIN rmChan[k] } : k \in RoundManagerKeys }
           \cup { { ch[k][i] : i \in DOMAIN ch[k] } :
                      ch \in {bmChan, wrapperChan}, k \in PeerKeys }
           \cup { { qsChan[c][k][i] : i \in DOMAIN qsChan[c][k] } :
                      c \in DOMAIN qsChan, k \in PeerKeys })

\* C4: a message of the current epoch that fails verification is pushed to
\* no channel: process_message returns an error, and the handles, the epoch
\* state and the actors are unchanged.  Every pending event of an actor
\* carries the current epoch and passed verification.
C4_UnverifiedDropped ==
    [][ /\ (Handled(EpochKinds) /\ last'.msg.epoch = epoch /\ ~last'.msg.ok) =>
              /\ last'.res = "err"
              /\ UNCHANGED <<chans, emState>>
        /\ \A e \in NetworkEntries' : e.ok /\ e.epoch = epoch'
      ]_vars

\* A vote of the current epoch that fails verification has been rejected.
C4_Witness ==
    /\ last.msg.kind = "VoteMsg"
    /\ last.msg.epoch = epoch
    /\ ~last.msg.ok
    /\ last.res = "err"
    /\ round_manager_tx # None

\* The messages the epoch manager hands to the network sender.
ProofTo(peer, lo, hi) == [to |-> peer, kind |-> "EpochChangeProof", lo |-> lo, hi |-> hi]

RequestTo(peer, lo, hi) ==
    [to |-> peer, kind |-> "EpochRetrievalRequest", lo |-> lo, hi |-> hi]

\* C5, as stated: for a message of epoch m other than the current epoch c
\* nothing is forwarded to an actor; if m < c and the author is a validator
\* nothing is sent; if m < c and the author is no validator an
\* EpochChangeProof for [m, c) is sent to the peer; if m > c an
\* EpochRetrievalRequest {c, m} is sent to the peer.
C5_AsStated ==
    [][ Handled({"DifferentEpoch"}) =>
          LET m == last'.msg.epoch
              peer == last'.msg.peer
          IN  /\ UNCHANGED <<chans, emState>>
              /\ (m < epoch /\ Author \in epoch_state.verifier) => last'.sent = {}
              /\ (m < epoch /\ Author \notin epoch_state.verifier) =>
                     last'.sent = {ProofTo(peer, m, epoch)}
              /\ m > epoch => last'.sent = {RequestTo(peer, epoch, m)}
      ]_vars

\* C5, amended: as C5_AsStated, but in the case m < c with the author no
\* validator the proof is read from storage first: it is sent when the read
\* succeeds; when the read fails an error is returned and nothing is sent.
C5_DifferentEpoch ==
    [][ Handled({"DifferentEpoch"}) =>
          LET m == last'.msg.epoch
              peer == last'.msg.peer
          IN  /\ UNCHANGED <<chans, emState>>
              /\ (m < epoch /\ Author \in epoch_state.verifier) =>
                     last'.sent = {} /\ last'.dbRead = "no"
              /\ (m < epoch /\ Author \notin epoch_state.verifier) =>
                     /\ last'.dbRead \in {"ok", "failed"}
                     /\ last'.dbRead = "ok" => last'.sent = {ProofTo(peer, m, epoch)}
                     /\ last'.dbRead = "failed" =>
                            last'.sent = {} /\ last'.res = "err"
              /\ m > epoch =>
                     last'.sent = {RequestTo(peer, epoch, m)} /\ last'.dbRead = "no"
      ]_vars

\* A message of a lower epoch reached a node that is no validator, and the
\* proof for [m, c) went back to the peer.
C5_Witness ==
    /\ last.msg.kind = "DifferentEpoch"
    /\ last.msg.epoch < epoch
    /\ Author \notin epoch_state.verifier
    /\ last.sent = {ProofTo(last.msg.peer, last.msg.epoch, epoch)}

\* C6: an EpochChangeProof starts an epoch transition only if its epoch is
\* the current one and it verifies against the current epoch state; any
\* other proof (of another epoch, a second copy of one already applied, or
\* one that fails verification) is rejected with an error, and the epoch
\* state, the handles and the actors are untouched: no shutdown starts.
C6_ProofOfCurrentEpochOnly ==
    [][ /\ Handled({"EpochChangeProof"}) =>
              IF last'.msg.epoch = epoch /\ last'.msg.ok
              THEN pc' = "sd_rm" /\ last'.res = "shutdown"
              ELSE last'.res = "err" /\ UNCHANGED <<emState, chans>>
        /\ (pc = "idle" /\ pc' \notin {"idle", "panicked"}) =>
              /\ Handled({"EpochChangeProof"})
              /\ last'.msg.epoch = epoch
              /\ last'.msg.ok
              /\ pc' = "sd_rm"
      ]_vars

\* A second copy of the proof that led to the current epoch was rejected.
C6_Witness ==
    /\ last.msg.kind = "EpochChangeProof"
    /\ last.msg.ok
    /\ last.msg.epoch < epoch
    /\ last.msg.hi = epoch
    /\ last.res = "err"
    /\ pc = "idle"

\* C7, as stated: an EpochRetrievalRequest with end_epoch above the current
\* epoch is rejected with an error, without a storage read and without a
\* proof sent; one with end_epoch <= current epoch is answered with the
\* proof for [start_epoch, end_epoch), sent to the requesting peer only.
C7_AsStated ==
    [][ Handled({"EpochRetrievalRequest"}) =>
          /\ UNCHANGED <<chans, emState>>
          /\ IF last'.msg.hi > epoch
             THEN last'.res = "err" /\ last'.dbRead = "no" /\ last'.sent = {}
             ELSE last'.sent = {ProofTo(last'.msg.peer, last'.msg.lo, last'.msg.hi)}
      ]_vars

\* C7, amended: as C7_AsStated, but a request with end_epoch <= current
\* epoch is answered only if the storage read of the proof succeeds; if it
\* fails an error is returned and nothing is sent.
C7_EpochRetrieval ==
    [][ Handled({"EpochRetrievalRequest"}) =>
          /\ UNCHANGED <<chans, emState>>
          /\ IF last'.msg.hi > epoch
             THEN last'.res = "err" /\ last'.dbRead = "no" /\ last'.sent = {}
             ELSE /\ last'.dbRead \in {"ok", "failed"}
                  /\ last'.dbRead = "ok" =>
                        last'.sent =
                            {ProofTo(last'.msg.peer, last'.msg.lo, last'.msg.hi)}
                  /\ last'.dbRead = "failed" =>
                        last'.sent = {} /\ last'.res = "err"
      ]_vars

\* A request beyond the current epoch was rejected.
C7_Witness ==
    /\ last.msg.kind = "EpochRetrievalRequest"
    /\ last.msg.hi > epoch
    /\ last.res = "err"
    /\ pc = "idle"

\* The quorum store of the current epoch is running.
QuorumStoreRunning ==
    /\ pc = "idle"
    /\ use_quorum_store
    /\ rmMode = "round"

\* C8: while the quorum store of the current epoch is running, exactly N + 2
\* listener channels exist, N = max(1, |validators| / num_nodes_per_worker_handles);
\* a verified Batch event is pushed to listener 0, a verified SignedDigest
\* event to listener 1 and a verified Fragment event of peer p to listener
\* 2 + (first byte of p mod N), which is a valid index and neither 0 nor 1.
C8_ListenerIndex ==
    QuorumStoreRunning =>
        LET q == Cardinality(epoch_state.verifier) \div NumNodesPerWorkerHandles
            N == IF q > 1 THEN q ELSE 1
            m == last.msg
            pushed(i) ==
                /\ last.res = "ok" /\ last.target = "listener" /\ last.idx = i
                /\ i + 1 \in DOMAIN qsChan
                /\ qsChan[i + 1][m.peer] # <<>>
                /\ qsChan[i + 1][m.peer][Len(qsChan[i + 1][m.peer])].kind = m.kind
        IN  /\ Len(quorum_store_msg_tx_vec) = N + 2
            /\ DOMAIN qsChan = 1 .. (N + 2)
            /\ (last.res # "taken" /\ m.ok /\ m.epoch = epoch) =>
                  /\ m.kind = "BatchMsg" => pushed(0)
                  /\ m.kind = "SignedDigestMsg" => pushed(1)
                  /\ m.kind = "FragmentMsg" =>
                        /\ pushed(2 + (m.peer % N))
                        /\ last.idx \notin {0, 1}
                        /\ last.idx < Len(quorum_store_msg_tx_vec)

\* A Fragment event was pushed to the second fragment listener.
C8_Witness ==
    /\ QuorumStoreRunning
    /\ last.msg.kind = "FragmentMsg"
    /\ last.res = "ok"
    /\ last.idx = 3
    /\ qsChan[4][last.msg.peer] # <<>>

\* C9: within an epoch every Fragment event of a peer is pushed to the same
\* listener shard; the shard takes the fragments of a peer in the order they
\* were pushed; a fragment is dropped only when the queue of its peer
\* already holds channel_size pending events.
C9_FragmentFifo ==
    [][ /\ (Handled({"FragmentMsg"}) /\ last'.target = "listener") =>
              LET i == last'.idx + 1
                  p == last'.msg.peer
                  q == qsChan[i][p]
              IN  /\ qsChan' = [qsChan EXCEPT ![i][p] =
                                   IF Len(q) < ChannelSize
                                   THEN Append(q, Entry(last'.msg, 0)) ELSE q]
                  /\ last'.full <=> Len(q) = ChannelSize
        /\ \A i \in DOMAIN qsChan' : \A p \in PeerKeys :
              (qsChan'[i][p] # <<>> /\ qsChan'[i][p][1].kind = "FragmentMsg") =>
                  i = 3 + (p % num_network_workers_for_fragment')
        /\ (last'.res = "taken" /\ last'.target = "listener") =>
              LET i == last'.idx + 1
                  p == last'.msg.peer
              IN  /\ last'.msg.hi = 1
                  /\ qsChan' = [qsChan EXCEPT ![i][p] = Tail(qsChan[i][p])]
      ]_vars

\* A shard took the older of two pending fragments of a peer.
C9_Witness ==
    /\ last.res = "taken"
    /\ last.msg.kind = "FragmentMsg"
    /\ qsChan[last.idx + 1][last.msg.peer] # <<>>

\* C10: verified CommitVote and CommitDecision events are pushed to the
\* buffer manager only and verified ProofOfStoreBroadcast events to the
\* wrapper only; when that actor is not installed the event is rejected
\* with an error and pushed nowhere.
C10_CommitAndProofRouting ==
    [][ (/\ Handled(BufferManagerKinds \cup {"ProofOfStoreBroadcastMsg"})
         /\ last'.msg.ok
         /\ last'.msg.epoch = epoch) =>
          LET toBM == last'.msg.kind \in BufferManagerKinds
              handle == IF toBM THEN buffer_manager_msg_tx ELSE wrapper_quorum_store_tx
              ch == IF toBM THEN bmChan ELSE wrapperChan
              p == last'.msg.peer
              new == [ch EXCEPT ![p] = IF Len(ch[p]) < ChannelSize
                                       THEN Append(ch[p], Entry(last'.msg, 0))
                                       ELSE ch[p]]
          IN  /\ UNCHANGED emState
              /\ IF handle = None
                 THEN last'.res = "err" /\ UNCHANGED chans
                 ELSE /\ last'.res = "ok"
                      /\ last'.target = IF toBM THEN "bm" ELSE "wrapper"
                      /\ bmChan' = IF toBM THEN new ELSE bmChan
                      /\ wrapperChan' = IF toBM THEN wrapperChan ELSE new
                      /\ UNCHANGED <<rmChan, brtChan, qsChan>>
      ]_vars

\* A verified commit vote was rejected by a node without buffer manager.
C10_Witness ==
    /\ last.msg.kind = "CommitVoteMsg"
    /\ last.msg.ok
    /\ last.msg.epoch = epoch
    /\ last.res = "err"
    /\ buffer_manager_msg_tx = None
    /\ round_manager_tx # None

\* C11: the round manager's channel holds at most one pending event per key
\* (author, kind): a push on a key with a pending event drops that event and
\* keeps the new one; the queues of the other keys are unchanged.
C11_OnePendingPerKey ==
    [][ /\ \A k \in RoundManagerKeys : Len(rmChan'[k]) <= 1
        /\ (Handled(RoundManagerKinds \cup {"LocalTimeout"}) /\ last'.target = "rm") =>
              LET k == <<last'.msg.peer, last'.msg.kind>>
                  e == Entry(last'.msg, NextBit(rmChan, k))
              IN  /\ rmChan' = [rmChan EXCEPT ![k] = <<e>>]
                  /\ rmChan[k] # <<>> => (e # rmChan[k][1] /\ last'.full)
      ]_vars

\* A vote replaced the pending vote of its peer while an event of another
\* key stayed pending.
C11_Witness ==
    /\ last.target = "rm"
    /\ last.full
    /\ last.msg.kind = "VoteMsg"
    /\ \E k \in RoundManagerKeys :
          k # <<last.msg.peer, last.msg.kind>> /\ rmChan[k] # <<>>

\* C12: the events of a key (p, k) that the round manager receives, it
\* receives in the order the epoch manager pushed them: the event it takes
\* is the oldest pending one of its key, so none pushed before it is
\* received after it.
C12_PerKeyOrder ==
    [][ (last'.res = "taken" /\ last'.target = "rm") =>
          LET k == <<last'.msg.peer, last'.msg.kind>>
          IN  /\ last'.msg.hi = 1
              /\ rmChan[k] # <<>>
              /\ rmChan' = [rmChan EXCEPT ![k] = Tail(rmChan[k])]
      ]_vars

\* The round manager has taken a proposal while a vote of the same peer
\* stays pending.
C12_Witness ==
    /\ last.res = "taken"
    /\ last.target = "rm"
    /\ last.msg.kind = "ProposalMsg"
    /\ rmChan[<<last.msg.peer, "VoteMsg">>] # <<>>

\* What process_block_retrieval does with a request, the part of C13 that
\* both readings share: without a block-retrieval task the request is
\* rejected with an error; otherwise it replaces the pending request of its
\* peer, if any, and the new request is the one kept.
BlockRetrievalPush ==
    Handled({"BlockRetrievalRequest"}) =>
        LET p == last'.msg.peer
            e == Entry(last'.msg, NextBit(brtChan, p))
        IN  /\ UNCHANGED <<emState, rmChan, bmChan, wrapperChan, qsChan>>
            /\ IF block_retrieval_tx = None
               THEN last'.res = "err" /\ brtChan' = brtChan
               ELSE /\ last'.res = "ok"
                    /\ brtChan' = [brtChan EXCEPT ![p] = <<e>>]
                    /\ brtChan[p] # <<>> => e # brtChan[p][1]

\* C13, as stated: the block-retrieval channel is LIFO with capacity 1, a
\* new request replaces a pending earlier one, so at most one request is
\* pending for the task at any time; without a block-retrieval task a
\* request is rejected with an error.
C13_AsStated ==
    [][ /\ BlockRetrievalPush
        /\ ChanLen(brtChan') <= 1
      ]_vars

\* C13, amended: as C13_AsStated, but the channel is keyed by the requesting
\* peer: a new request replaces the pending request of the same peer only,
\* and at most one request per peer is pending.
C13_BlockRetrieval ==
    [][ /\ BlockRetrievalPush
        /\ \A p \in PeerKeys : Len(brtChan'[p]) <= 1
      ]_vars

\* A request replaced the pending request of its peer while the request of
\* another peer stayed pending.
C13_Witness ==
    /\ last.msg.kind = "BlockRetrievalRequest"
    /\ last.res = "ok"
    /\ last.full
    /\ ChanLen(brtChan) = 2

\* ---------------------------------------------- claims: quorum store worker
\* C14: under any sequence of AppendToBatch and EndBatch commands the fragments
\* broadcast for one batch carry the fragment ids 0, 1, ..., k without gap or
\* repeat; all but the last carry no expiry and the last, that of EndBatch,
\* carries the expiry of its command; fragment_id is 0 after every EndBatch.
C14_FragmentIds ==
    /\ \A i \in 1..Len(broadcast) :
          /\ broadcast[i].fragment_id = i - 1
          /\ i < Len(broadcast) => broadcast[i].expiration = None
    /\ qsPc = "running" =>
          /\ Len(broadcast) = Len(commands)
          /\ IF commands # <<>> /\ commands[Len(commands)].kind = "EndBatch"
             THEN /\ fragment_id = 0
                  /\ broadcast[Len(broadcast)].expiration =
                         commands[Len(commands)].expiration
                  /\ broadcast[Len(broadcast)].expiration # None
             ELSE /\ fragment_id = Len(broadcast)
                  /\ \A i \in 1..Len(broadcast) : broadcast[i].expiration = None

\* A batch of three fragments has been broadcast and ended.
C14_Witness ==
    /\ qsPc = "running"
    /\ Len(broadcast) = 3
    /\ broadcast[3].expiration # None
    /\ fragment_id = 0

\* The commands received for the batch in hand name one batch id and their
\* payloads together stay within max_batch_bytes.
WellFormedCommands ==
    /\ \A i \in 1..Len(commands) : commands[i].batch_id = commands[1].batch_id
    /\ NumBytes([i \in 1..Len(commands) |-> commands[i].payload]) <= MaxBatchBytes

\* C15: as long as the wrapper names the same batch id in every command between
\* two consecutive EndBatch and the payloads of a batch total at most
\* max_batch_bytes, aggregating the worker's own fragments never fails: the
\* unreachable! branch is not reached.
C15_AggregationNeverFails == WellFormedCommands => qsPc # "panicked"

\* A batch that filled max_batch_bytes was persisted and two fragments of the
\* next batch have been aggregated.
C15_Witness ==
    /\ qsPc = "running"
    /\ batch_store_tx.kind = "Persist"
    /\ batch_store_tx.num_bytes = MaxBatchBytes
    /\ Len(commands) = 2
    /\ batch_aggregator.next_fragment_id = 2

\* C16: every Persist request sent to the batch store and every InitProof sent
\* to the proof builder describes a batch whose num_bytes is at most
\* max_batch_bytes (and is the byte count of the batch's payload).
C16_BatchWithinLimit ==
    /\ batch_store_tx.kind = "Persist" =>
          /\ batch_store_tx.num_bytes <= MaxBatchBytes
          /\ batch_store_tx.num_bytes = NumBytes(batch_store_tx.payload)
    /\ proof_builder_tx.kind = "InitProof" =>
          /\ proof_builder_tx.num_bytes <= MaxBatchBytes
          /\ proof_builder_tx.num_bytes = NumBytes(proof_builder_tx.digest)

\* A batch of two fragments that fills max_batch_bytes exactly has just been
\* sent to the batch store and to the proof builder.
C16_Witness ==
    /\ qsPc = "running"
    /\ commands # <<>> /\ commands[Len(commands)].kind = "EndBatch"
    /\ batch_store_tx.kind = "Persist"
    /\ proof_builder_tx.kind = "InitProof"
    /\ Len(batch_store_tx.payload) = 2
    /\ batch_store_tx.num_bytes = MaxBatchBytes
    /\ proof_builder_tx.num_bytes = MaxBatchBytes

\* -------------------------------------------------- claims: proof builder
\* What each return channel has received: at most one outcome, of its own
\* batch, and a Proof-of-Store only with a quorum of voting power.
ReturnedOnce ==
    \A b \in BatchIds :
        /\ Len(returned[b]) <= 1
        /\ \A i \in 1..Len(returned[b]) :
              /\ returned[b][i].batch_id = b
              /\ returned[b][i].kind \in {"ProofOfStore", "Timeout"}
              /\ returned[b][i].kind = "ProofOfStore" =>
                    SumVotingPower(returned[b][i].signers) >= QuorumVotingPower
        /\ returned[b] # <<>> => proofs[b].state = "closed"

\* C17 (as stated): for every EndBatch the worker accepted, the return channel
\* eventually receives exactly one outcome, a Proof-of-Store or
\* Timeout(batch_id) of the same batch; never both, never another batch's.
C17_AsStated ==
    /\ []ReturnedOnce
    /\ \A b \in BatchIds : (proofs[b].state = "open") ~> (Len(returned[b]) = 1)

\* C17 (corrected): the same, unless the quorum store is shut down while the
\* proof is open: then the proof builder is stopped and the return channel
\* receives no outcome.
C17_OneOutcome ==
    /\ []ReturnedOnce
    /\ \A b \in BatchIds :
          (proofs[b].state = "open") ~> (Len(returned[b]) = 1 \/ pbPc = "stopped")

\* One batch got its Proof-of-Store and another timed out.
C17_Witness ==
    \E b, c \in BatchIds :
        /\ returned[b] # <<>> /\ returned[b][1].kind = "ProofOfStore"
        /\ returned[c] # <<>> /\ returned[c][1].kind = "Timeout"
        /\ timers = {}

\* The signers collected for a batch: those of its Proof-of-Store once it is
\* emitted, those of its accumulator before.
Collected(proof, outcomes) ==
    IF outcomes # <<>> /\ outcomes[Len(outcomes)].kind = "ProofOfStore"
    THEN outcomes[Len(outcomes)].signers
    ELSE proof.signers

\* C18: every Proof-of-Store carries signatures of pairwise distinct
\* validators of the epoch whose voting power reaches the quorum threshold; a
\* signed digest with an invalid signature, of a non-validator, for a digest
\* that is not open, or repeated by the same validator is never counted.
C18_QuorumOfDistinctValidators ==
    /\ [](\A b \in BatchIds : \A i \in 1..Len(returned[b]) :
            returned[b][i].kind = "ProofOfStore" =>
                /\ returned[b][i].signers \subseteq Validators
                /\ SumVotingPower(returned[b][i].signers) >= QuorumVotingPower)
    /\ [][\A b \in BatchIds :
            LET old == Collected(proofs[b], returned[b])
                new == Collected(proofs'[b], returned'[b])
            IN  /\ proofs'[b].power # proofs[b].power => new # old
                /\ (new # old /\ new # {}) =>
                      /\ pbLast' = "valid"
                      /\ proofs[b].state = "open"
                      /\ \E a \in Validators \ old : new = old \cup {a}
         ]_<<vars, subsystems>>

\* A Proof-of-Store was emitted with two signers that reach the quorum while
\* another batch holds two signers that do not, and the last signed digest,
\* with an invalid signature, left both as they were.
C18_Witness ==
    \E b, c \in BatchIds :
        /\ returned[b] # <<>> /\ returned[b][1].kind = "ProofOfStore"
        /\ Cardinality(returned[b][1].signers) = 2
        /\ proofs[c].state = "open" /\ Cardinality(proofs[c].signers) = 2
        /\ pbLast = "invalid"

\* ------------------------------------------------ claims: ExecutionProxy
\* The callers whose call of one of `ops` is in progress: for commit and
\* sync_to from the moment the mutex is theirs, for compute from the call on.
InProgress(ops) ==
    {c \in Callers : callers[c].op \in ops /\ callers[c].pc # "waiting"}

\* C19 (as stated): compute, commit and sync_to are serialized: at no time are
\* two of them in progress on the same ExecutionProxy.
C19_AsStated == Cardinality(InProgress({"compute", "commit", "sync_to"})) <= 1

\* C19 (corrected): commit and sync_to are serialized by write_mutex: at no
\* time are two of them in progress, and the mutex is held while one is;
\* compute takes no lock and runs beside them.
C19_CommitAndSyncSerialized ==
    /\ Cardinality(InProgress({"commit", "sync_to"})) <= 1
    /\ write_mutex.locked <=> InProgress({"commit", "sync_to"}) # {}

\* A commit holds the mutex, a sync_to waits for it.
C19_Witness ==
    \E c, d \in Callers :
        /\ callers[c].op = "commit" /\ callers[c].pc = "committed"
        /\ callers[d].op = "sync_to" /\ callers[d].pc = "waiting"

\* The commit numbers of a log are in the order the calls were made.
InCallOrder(log) == \A i, j \in 1..Len(log) : i < j => log[i] < log[j]

\* The commit calls among the entries of the commit notifier.
CommitsOf(entries) ==
    LET commits == SelectSeq(entries, LAMBDA e : e.kind = "commit")
    IN  [i \in 1..Len(commits) |-> commits[i].id]

\* C20: commit order is preserved end to end: of two commit calls the executor
\* commits the one made first first, its state-sync notification and callback
\* are processed first, and its notify_commit reaches the data manager first.
C20_CommitOrder ==
    /\ InCallOrder(executorLog)
    /\ InCallOrder(stateSyncLog \o stateSyncQ)
    /\ InCallOrder(CommitsOf(commitLog \o commitQ))

\* Two commits called by different tasks went through both notifier tasks,
\* with a sync_to between them.
C20_Witness ==
    /\ executorLog = <<1, 2>>
    /\ stateSyncLog = <<1, 2>>
    /\ Len(commitLog) = 3
    /\ commitLog[1].id = 1 /\ commitLog[2].kind = "sync_to" /\ commitLog[3].id = 2

\* ------------------------------------------ claims: commit notifications
\* (e1, r1) is at most (e2, r2) in the lexicographic order of LogicalTime.
LogicalTimeLeq(e1, r1, e2, r2) == e1 < e2 \/ (e1 = e2 /\ r1 <= r2)

\* What the data manager has got or is about to get.
Notified == data_manager \o commit_rx

\* C21 (as stated): for every commit of a non-empty block list the data
\* manager receives exactly one notify_commit whose LogicalTime is the
\* lexicographically greatest (epoch, round) among the committed blocks, the
\* logical time of a committed block, and whose payloads are those of the
\* blocks that have one, in block order.
C21_AsStated ==
    (commit_result = "ok" /\ commit_blocks # <<>>) =>
        /\ Len(Notified) = 1
        /\ \E i \in 1..Len(commit_blocks) :
              /\ Notified[1].epoch = commit_blocks[i].epoch
              /\ Notified[1].round = commit_blocks[i].round
        /\ \A i \in 1..Len(commit_blocks) :
              LogicalTimeLeq(commit_blocks[i].epoch, commit_blocks[i].round,
                             Notified[1].epoch, Notified[1].round)
        /\ Notified[1].payloads = PayloadsOf(commit_blocks)


\* ------------------------------------------------ claims: starting an epoch
\* The step is a completed start_new_epoch.
EpochStarts == pc \in {"init", "reconfig"} /\ pc' = "idle"

\* C22: start_new_epoch installs the epoch state of the payload and then
\* starts exactly one of two things. With full recovery data it starts the
\* round manager and its block-retrieval task, the quorum store and its
\* wrapper exactly when the quorum store is in use, and the buffer manager
\* only together with its reset handle. With partial recovery data it starts
\* the recovery manager alone: no buffer manager, no wrapper, no listener and
\* no block-retrieval task is started, and their handles stay empty. An
\* on-chain consensus config that cannot be read does not prevent the start.
C22_StartsExactlyOne ==
    [][EpochStarts =>
        /\ last'.msg.kind = "ReconfigNotification"
        /\ epoch_state'.epoch = last'.msg.epoch
        /\ round_manager_tx' = epoch' /\ round_manager_close_tx' = epoch'
        /\ liveRM' = liveRM \cup {epoch'}
        /\ IF last'.res = "Full"
           THEN /\ rmMode' = "round"
                /\ block_retrieval_tx' = epoch'
                /\ liveBRT' = liveBRT \cup {epoch'}
                /\ IF use_quorum_store
                   THEN /\ wrapper_quorum_store_tx' = epoch'
                        /\ liveWrapper' = liveWrapper \cup {epoch'}
                        /\ liveListeners' = liveListeners \cup {epoch'}
                   ELSE /\ wrapper_quorum_store_tx' = None
                        /\ liveWrapper' = liveWrapper
                        /\ liveListeners' = liveListeners
                /\ IF buffer_manager_msg_tx' = None
                   THEN buffer_manager_reset_tx' = None /\ liveBM' = liveBM
                   ELSE /\ buffer_manager_msg_tx' = epoch'
                        /\ buffer_manager_reset_tx' = epoch'
                        /\ liveBM' = liveBM \cup {epoch'}
           ELSE /\ last'.res = "Partial"
                /\ rmMode' = "recovery"
                /\ buffer_manager_msg_tx' = None /\ buffer_manager_reset_tx' = None
                /\ wrapper_quorum_store_tx' = None /\ block_retrieval_tx' = None
                /\ liveBM' = liveBM /\ liveWrapper' = liveWrapper
                /\ liveBRT' = liveBRT /\ liveListeners' = liveListeners
    ]_<<vars, subsystems>>

\* Epoch 2 started from partial recovery data, with an on-chain
\* consensus config that could not be read.
C22_Witness ==
    /\ last.msg.kind = "ReconfigNotification" /\ ~last.msg.ok
    /\ last.res = "Partial"
    /\ epoch = 2 /\ rmMode = "recovery" /\ round_manager_tx = 2


\* ------------------------------------------------ claims: proposer election
\* C23: with the Fixed election type the election is a rotating election over
\* the single proposer choose_leader(proposers) picks, with the configured
\* contiguous_rounds, so every round asked gets that same leader.
C23_FixedLeader ==
    (election_call.type = "FixedProposer" /\ election_call.proposers # <<>>) =>
        /\ proposer_election.kind = "RotatingProposer"
        /\ proposer_election.proposers = <<ChooseLeader(election_call.proposers)>>
        /\ proposer_election.contiguous_rounds = election_call.contiguous_rounds
        /\ \A r1, r2 \in DOMAIN leaders : leaders[r1] = leaders[r2]
        /\ \A r \in DOMAIN leaders : leaders[r] = ChooseLeader(election_call.proposers)

\* A fixed election over three proposers was asked for every round, with
\* one contiguous round per leader.
C23_Witness ==
    /\ election_call.type = "FixedProposer"
    /\ Len(election_call.proposers) = NumProposers
    /\ election_call.contiguous_rounds = 1
    /\ DOMAIN leaders = 0..MaxRound

\* The get_epoch_ending_ledger_infos call of the election, when one was made.
Requested == ledger_info_requests[1]

\* C24: when leader reputation asks storage for the history of earlier epochs
\* and the fetch fails, or returns another number of ledger infos than the
\* number of epochs asked for, or the proposers cannot be extracted, the
\* election is built all the same, over exactly the mapping
\* {current epoch -> current proposers}.
C24_FallsBackToCurrentEpoch ==
    (/\ election_call.type = "LeaderReputation"
     /\ election_call.proposers # <<>>
     /\ ledger_info_requests # <<>>
     /\ \/ ~election_call.fetchOk
        \/ election_call.fetchLen # Requested.end_epoch - Requested.start_epoch
        \/ ~election_call.extractOk) =>
        /\ proposer_election.kind = "LeaderReputation"
        /\ proposer_election.epoch_to_proposers =
             [k \in {election_call.epoch} |-> election_call.proposers]

\* Storage answered a request for two ledger infos with one, from which the
\* proposers could have been extracted.
C24_Witness ==
    /\ election_call.type = "LeaderReputation"
    /\ election_call.proposers # <<>>
    /\ ledger_info_requests = <<[start_epoch |-> 0, end_epoch |-> 2]>>
    /\ election_call.fetchOk /\ election_call.extractOk
    /\ election_call.fetchLen = 1
    /\ DOMAIN proposer_election.epoch_to_proposers = {2}

\* max(1, e - max_count) over the natural numbers.
FirstConsidered(e, max_count) ==
    IF e > max_count /\ e - max_count > 1 THEN e - max_count ELSE 1

\* C25: for leader reputation the first epoch considered is
\* max(1, epoch - max_count), also for epoch 0 and for max_count > epoch;
\* history is fetched exactly when the epoch is greater than it, once, over
\* the range [first - 1, epoch) with first - 1 >= 0; the election covers no
\* epoch after the current one and at most max_count epochs before it.
C25_HistoryRange ==
    election_call.type = "LeaderReputation" =>
        LET e == election_call.epoch
            first == FirstConsidered(e, election_call.max_count)
        IN /\ (ledger_info_requests # <<>>) <=> (e > first)
           /\ Len(ledger_info_requests) <= 1
           /\ ledger_info_requests # <<>> =>
                /\ Requested = [start_epoch |-> first - 1, end_epoch |-> e]
                /\ Requested.start_epoch >= 0
                /\ e - first <= election_call.max_count
           /\ \A k \in DOMAIN proposer_election.epoch_to_proposers :
                k <= e /\ e - k <= election_call.max_count

\* Epoch 2 with a max_count greater than the epoch: the history of epoch 1
\* was fetched and used.
C25_Witness ==
    /\ election_call.type = "LeaderReputation"
    /\ election_call.epoch = 2 /\ election_call.max_count > 2
    /\ ledger_info_requests = <<[start_epoch |-> 0, end_epoch |-> 2]>>
    /\ DOMAIN proposer_election.epoch_to_proposers = {1, 2}

C27_AsStated == pc # "panicked" /\ last.res # "panic"


C29_CreatedIffOneAccepted ==
    ingest_reply # "none" =>
        /\ DOMAIN ingest_posts = ingest_call.clients
        /\ \A c \in ingest_call.clients : ingest_posts[c].body = ingest_call.body
        /\ ingest_reply = "Created" <=>
             \E c \in ingest_call.clients : ingest_posts[c].answer \in 200..299
        /\ ingest_reply = "IngestionError" <=>
             \A c \in ingest_call.clients : ingest_posts[c].answer \notin 200..299

\* Of three backends one accepted the write, one answered 503 and one did
\* not answer: the reply is Created.
C29_Witness ==
    /\ ingest_reply = "Created"
    /\ Cardinality(ingest_call.clients) = 3
    /\ \E a, b, c \in ingest_call.clients :
          /\ ingest_posts[a].answer = 200
          /\ ingest_posts[b].answer = 503
          /\ ingest_posts[c].answer = NoResponse


\* ----------------------------------------------------- claims: round timeouts
\* C30 (as stated): a LocalTimeout is given to the round manager of the epoch
\* whose round state scheduled it; a timeout scheduled in epoch e and taken
\* after epoch e + 1 was installed is not forwarded to the round manager of
\* epoch e + 1.
C30_AsStated == forwarded # NotForwarded => forwarded.to = forwarded.scheduled_in


\* --------------------------------------- claims: the worker's end of a batch
\* The transactions of the commands of the batch in hand, in order.
FullPayload == [i \in 1..Len(commands) |-> commands[i].payload]

\* C31: after every EndBatch the worker has sent one InitProof, broadcast one
\* terminal fragment and sent one Persist request that describe the same
\* batch: InitProof and Persist carry the same digest and the expiration of
\* the terminal fragment, their num_bytes and the InitProof's transaction
\* count are those of the full payload of the batch, the InitProof's batch_id
\* is the fragment's and the Persist author is the local peer.
C31_OneBatchDescribed ==
    (qsPc = "running" /\ commands # <<>> /\ commands[Len(commands)].kind = "EndBatch") =>
        LET frag == broadcast[Len(broadcast)]
        IN  /\ proof_builder_tx.kind = "InitProof"
            /\ batch_store_tx.kind = "Persist"
            /\ Len(broadcast) = Len(commands)
            /\ \A i \in 1..Len(broadcast) :
                  broadcast[i].expiration # None <=> i = Len(broadcast)
            /\ proof_builder_tx.digest = batch_store_tx.digest
            /\ proof_builder_tx.expiration = frag.expiration
            /\ batch_store_tx.expiration = frag.expiration
            /\ batch_store_tx.payload = FullPayload
            /\ proof_builder_tx.num_txns = Len(FullPayload)
            /\ proof_builder_tx.num_bytes = NumBytes(FullPayload)
            /\ batch_store_tx.num_bytes = NumBytes(FullPayload)
            /\ proof_builder_tx.batch_id = frag.batch_id
            /\ batch_store_tx.author = Author

\* A batch of two fragments was ended with the later of the expirations.
C31_Witness ==
    /\ qsPc = "running"
    /\ Len(commands) = 2 /\ commands[2].kind = "EndBatch"
    /\ proof_builder_tx.kind = "InitProof"
    /\ proof_builder_tx.expiration = MaxExpiration
    /\ batch_store_tx.kind = "Persist"
    /\ broadcast[2].expiration = MaxExpiration


\* ------------------------------------- claims: the order of the worker's sends
\* The places of the commands of one kind about batch b on proof_builder_tx.
Places(kind, b) ==
    {i \in 1..Len(pb_channel) : pb_channel[i].kind = kind /\ pb_channel[i].batch_id = b}

\* C32: the InitProof of a batch is enqueued to the proof builder before the
\* terminal fragment is broadcast and before the Persist request is sent, so
\* every SignedDigest of the batch, from a peer answering the terminal
\* fragment or from the local batch store, is enqueued after its InitProof.
C32_InitProofFirst ==
    /\ \A b \in broadcasted \cup persisted : Places("InitProof", b) # {}
    /\ \A b \in BatchIds : \A j \in Places("SignedDigest", b) :
          \E i \in Places("InitProof", b) : i < j

\* A batch whose InitProof is followed by the SignedDigest of a peer and by
\* that of the local batch store.
C32_Witness ==
    \E b \in BatchIds :
        /\ Places("InitProof", b) # {}
        /\ \E j, k \in Places("SignedDigest", b) :
              pb_channel[j].from = "peer" /\ pb_channel[k].from = "batch_store"

\* A step of a worker that took Shutdown handles no command of a batch.
NoCommandAfterShutdown ==
    wPc \in {"shutdown", "stopped", "panicked"} =>
        (/\ wPc' \in {"shutdown", "stopped", "panicked"}
         /\ UNCHANGED <<appended, broadcasted, persisted, wBatch>>
         /\ \A b \in BatchIds : Places("InitProof", b)' = Places("InitProof", b))

\* C33: Shutdown stops the sub-actors one at a time in the order batch store,
\* proof builder, network listeners, each acknowledgment awaited before the
\* next sub-actor is contacted; the worker acknowledges only when all have,
\* and from the Shutdown on it processes no AppendToBatch and no EndBatch.
C33_OrderedShutdown ==
    /\ [](/\ Len(wAsked) <= Len(SubActors)
          /\ wAsked = SubSeq(SubActors, 1, Len(wAsked))
          /\ Len(wAcked) <= Len(wAsked)
          /\ wAcked = SubSeq(wAsked, 1, Len(wAcked))
          /\ Len(wAsked) <= Len(wAcked) + 1
          /\ wPc = "stopped" => wAcked = SubActors
          /\ wAsked # <<>> => wPc \in {"shutdown", "stopped", "panicked"})
    /\ [][NoCommandAfterShutdown]_<<vars, subsystems>>

\* The worker acknowledged its Shutdown after it had handled commands.
C33_Witness ==
    /\ wPc = "stopped"
    /\ wAcked = SubActors
    /\ appended # {}
    /\ broadcasted # {}


\* ------------------------------------------------- claims: the epoch change
\* initiate_new_epoch is between the start of shutdown_current_processor and
\* the return of await_reconfig_notification.
EpochChanging ==
    pc \in {"sd_rm", "sd_rm_ack", "sd_wrapper", "sd_wrapper_ack", "sd_bm", "sd_bm_ack",
            "sd_brt", "sync", "reconfig"}

\* sync_to returned an error and the expect() on it panicked.
SyncToFailed ==
    /\ pc = "panicked"
    /\ shutLog # <<>> /\ shutLog[Len(shutLog)] = "sync_failed"

\* l is the outcome of a handler of the select loop: an inbound message, a
\* block retrieval or a round timeout was processed.
HandlerRan(l) ==
    /\ l # NoLast
    /\ l.res # "taken"
    /\ l.msg.kind # "ReconfigNotification"

\* While the epoch changes no handler of the select loop runs.
NothingHandledWhileChanging == EpochChanging => ~HandlerRan(last')

\* C34: an epoch change that has begun (to an epoch of Epochs, where the
\* model's notifications end) completes with the new epoch installed,
\* given that the acknowledgments arrive, sync_to succeeds and the
\* reconfiguration notification arrives; between the start of the shutdown
\* and the installation of the new epoch the epoch manager processes no
\* inbound message, block retrieval or round timeout.
C34_EpochChangeCompletes ==
    /\ \A e \in Epochs :
          (EpochChanging /\ pendingLI = e) ~> ((pc = "idle" /\ epoch = e) \/ SyncToFailed)
    /\ [][NothingHandledWhileChanging]_<<vars, subsystems>>

\* An epoch change from epoch 1 with all of the actors to stop has completed
\* and the handles of the new epoch are installed.
C34_Witness ==
    /\ pc = "idle" /\ epoch = 2
    /\ last.msg.kind = "ReconfigNotification" /\ last.msg.lo = 1
    /\ round_manager_tx = 2
    /\ liveRM = {2}


\* ------------------------------------------ claims: the round manager's sender
\* C35: in every state after the first reconfiguration notification in which
\* the select loop takes an event, round_manager_tx is present, so no event
\* forwarded to the round manager meets the expect("RoundManager not
\* started") panic.
C35_RoundManagerStarted ==
    /\ pc = "idle" => round_manager_tx # None
    /\ last.res = "panic" => EventTarget(last.msg.kind) # "rm"

\* In the second epoch, started from partial recovery data, an event was
\* forwarded to the recovery manager.
C35_Witness ==
    /\ epoch = 2 /\ rmMode = "recovery"
    /\ last.res = "ok" /\ last.target = "rm"
    /\ last.msg.kind \in RoundManagerKinds


\* ------------------------------------------- claims: the listener senders
\* C36 (as stated): routing a verified Batch, SignedDigest or Fragment event
\* never indexes quorum_store_msg_tx_vec out of bounds: whenever the select
\* loop may take such an event, in quorum-store mode, in direct-mempool mode
\* and in recovery mode, the vector holds at least
\* num_network_workers_for_fragment + 2 senders.
C36_AsStated ==
    /\ pc = "idle" => Len(quorum_store_msg_tx_vec) >= num_network_workers_for_fragment + 2
    /\ (last.res = "panic" /\ last.msg.kind \in {"BatchMsg", "SignedDigestMsg", "FragmentMsg"})
          => EventTarget(last.msg.kind) # "listener"


\* --------------------------------------------- claims: senders of the epoch
\* The single senders the epoch manager holds are absent or of this epoch.
SingleSendersCurrent ==
    \A h \in {round_manager_tx, buffer_manager_msg_tx, wrapper_quorum_store_tx,
              block_retrieval_tx} : h \in {None, epoch}

\* Every network-listener sender the epoch manager holds is of this epoch.
ListenerSendersCurrent ==
    \A i \in DOMAIN quorum_store_msg_tx_vec : quorum_store_msg_tx_vec[i] = epoch

\* C37 (as stated): whenever the select loop may take an event, the
\* round-manager, buffer-manager, wrapper and block-retrieval senders and
\* every network-listener sender the epoch manager holds belong to actors of
\* the current epoch or are absent, in whichever mode the epoch started, so no
\* event verified in an epoch is pushed on a sender of an earlier one.
C37_AsStated ==
    pc = "idle" => (SingleSendersCurrent /\ ListenerSendersCurrent)


\* ------------------------------------- claims: the ExecutionProxy's calls
\* What was done for call id, of the kinds evs, in order.
OfCall(id, evs) == SelectSeq(scTrace[id], LAMBDA x : x.ev \in evs)

\* The commit notifications of call id that wait in the channel.
Queued(id) == SelectSeq(notify_rx, LAMBDA n : n.id = id)

\* C38: sync_to does, in this order, executor.finish(), the send of the
\* commit notification (the target's epoch and round, no payloads), the
\* state-sync call and executor.reset(); the notification stays sent when
\* state sync fails, reset is called whatever state sync returned, and sync_to
\* returns an error exactly when state sync or reset failed.
C38_SyncToInOrder ==
    \A i \in 1..Len(scCalls) :
        scCalls[i].op = "sync_to" =>
            LET c == scCalls[i]
                did == OfCall(c.id, {"finish", "notify", "sync_to_target", "reset"})
                order == <<"finish", "notify", "sync_to_target", "reset">>
                delivered == OfCall(c.id, {"notify_commit"})
            IN  /\ Len(did) <= 4
                /\ \A k \in 1..Len(did) : did[k].ev = order[k]
                /\ Len(did) >= 2 =>
                      /\ did[2] = Event("notify", c.id, TRUE, c.epoch, c.round, <<>>)
                      /\ Len(Queued(c.id)) + Len(delivered) = 1
                /\ \A k \in 1..Len(Queued(c.id)) :
                      Queued(c.id)[k] = CommitType(c.id, c.epoch, c.round, <<>>)
                /\ \A k \in 1..Len(delivered) :
                      delivered[k] = Event("notify_commit", c.id, TRUE, c.epoch, c.round, <<>>)
                /\ c.result # "none" =>
                      /\ Len(did) = 4
                      /\ c.result = "err" <=> ~(did[3].ok /\ did[4].ok)
                /\ c.result = "none" => (i = Len(scCalls) /\ scPc = "sync_to")

\* A sync_to whose state sync failed went on to a reset that succeeded and
\* returned the error; its commit notification reached the data manager.
C38_Witness ==
    \E i \in 1..Len(scCalls) :
        /\ scCalls[i].op = "sync_to" /\ scCalls[i].result = "err"
        /\ OfCall(i, {"sync_to_target", "reset"}) =
               <<Did("sync_to_target", i, FALSE), Did("reset", i, TRUE)>>
        /\ OfCall(i, {"notify_commit"}) # <<>>

\* The places of the callbacks of call id.
Callbacks(id) == {k \in 1..Len(scTrace[id]) : scTrace[id][k] = Did("callback", id, TRUE)}

\* C39: the callback of a commit that returns Ok is invoked exactly once,
\* after the executor's commit and after the attempt to notify state sync,
\* also when that attempt fails; a commit of no block still has its callback
\* invoked and sends no notify_commit; a commit whose get_data fails has
\* neither the executor's commit nor the callback.
C39_CallbackOnce ==
    \A i \in 1..Len(scCalls) :
        scCalls[i].op = "commit" =>
            LET c == scCalls[i]
                pending == \E k \in 1..Len(sync_rx) : sync_rx[k] = c.id
            IN  /\ Cardinality(Callbacks(c.id)) <= 1
                /\ (c.result = "ok" /\ ~pending) => Cardinality(Callbacks(c.id)) = 1
                /\ OfCall(c.id, {"notify_new_commit"}) # <<>> =>
                      Cardinality(Callbacks(c.id)) = 1
                /\ \A k \in Callbacks(c.id) :
                      /\ k > 1
                      /\ scTrace[c.id][k - 1].ev = "notify_new_commit"
                      /\ \E j \in 1..(k - 1) :
                            scTrace[c.id][j] = Did("commit_blocks", c.id, TRUE)
                /\ c.blocks = <<>> =>
                      /\ OfCall(c.id, {"notify", "notify_commit"}) = <<>>
                      /\ Queued(c.id) = <<>>
                /\ c.failAt # 0 =>
                      /\ OfCall(c.id, {"commit_blocks", "send_callback", "callback"}) = <<>>
                      /\ ~pending
                      /\ c.result # "ok"

\* A commit of no block returned Ok; state sync could not be notified of it
\* and its callback was invoked.
C39_Witness ==
    \E i \in 1..Len(scCalls) :
        /\ scCalls[i].op = "commit" /\ scCalls[i].result = "ok"
        /\ scCalls[i].blocks = <<>>
        /\ OfCall(i, {"notify_new_commit", "callback"}) =
               <<Did("notify_new_commit", i, FALSE), Did("callback", i, TRUE)>>

====
